---- MODULE Spec2Model ----
(***************************************************************************)
(* Model of the Unity hot-reload listener (HotReloadHandler.cs) of the     *)
(* unity-cursor-toolkit repository: the editor-side TCP listener, its      *)
(* named mutex, its listener threads, the main-thread tick and the         *)
(* persisted EditorPrefs.                                                  *)
(*                                                                         *)
(* Granularity.  Handlers that run on Unity's main thread are atomic with  *)
(* respect to each other (the main thread is single), but the listener     *)
(* threads run in parallel with them.  A handler is therefore split only   *)
(* where the main thread blocks while listener threads keep running:       *)
(* Thread.Join in StopServer and Thread.Sleep in TryStartOnSpecificPort.   *)
(* A listener thread is split at its writes to the shared statics.         *)
(* Thread.Abort is taken to kill the thread before StopServer returns.     *)
(* The named mutex is modelled by its owner and recursion count.           *)
(***************************************************************************)
EXTENDS Integers, Sequences, FiniteSets, TLC

\* ---------------------------------------------------------------- bounds
MaxThreads == 2
MaxLockCount == 2
MaxActions == 1
MaxQueue == 2
MaxStream == 1
MaxConns == 2
MaxReloads == 1
MaxCalls == 3
MaxClosing == 2
MaxTimers == 1
MaxWrites == 2
MaxOutages == 1

\* ------------------------------------------------------ program constants
DEFAULT_PORT == 55500
ALTERNATIVE_PORTS == <<55500, 55501, 55502, 55503, 55504>>
PORT_RETRY_ATTEMPTS == 5

Ports == {ALTERNATIVE_PORTS[i] : i \in 1..Len(ALTERNATIVE_PORTS)}
Hosts == {1, 2}
Tids == 1..MaxThreads
Conns == 1..MaxConns
\* A reference (server, listenerThread) is a thread slot of Tids, NULL, or ENDED: a
\* non-null reference to a thread that has ended, or to a listener that is not active.
NULL == 0
ENDED == -1

\* ---------------------------------------------------------- wire payloads
\* A payload is the sequence of the lexical tokens of its text; Contains is
\* String.Contains on those tokens.
RefreshJson == <<"{", "\"command\"", ":", "\"refresh\"", ",", "\"timestamp\"", ":", "1", "}">>
PingJson == <<"{", "\"command\"", ":", "\"ping\"", "}">>
HelloText == <<"hello">>
NoCommandJson == <<"{", "\"file\"", ":", "\"a.cs\"", "}">>
OtherCommandJson == <<"{", "\"command\"", ":", "\"build\"", "}">>
Payloads == {RefreshJson, PingJson, HelloText, NoCommandJson, OtherCommandJson}

Contains(message, token) == \E i \in 1..Len(message) : message[i] = token

\* ProcessMessage: the value of shouldRequestRefresh after the call.
ProcessMessage(flag, message) ==
    IF Contains(message, "{") /\ Contains(message, "}")
    THEN IF Contains(message, "\"command\"")
         THEN IF Contains(message, "\"refresh\"")
              THEN TRUE
              ELSE flag
         ELSE TRUE
    ELSE TRUE

RECURSIVE ProcessAll(_, _)
ProcessAll(flag, queue) ==
    IF queue = <<>> THEN flag
    ELSE ProcessAll(ProcessMessage(flag, Head(queue)), Tail(queue))

RECURSIVE Concat(_)
Concat(parts) == IF parts = <<>> THEN <<>> ELSE Head(parts) \o Concat(Tail(parts))

\* ------------------------------------------------------------------ state
VARIABLES
    host,     \* per editor process: the statics of HotReloadHandler, its threads, its main thread
    mutex,    \* the named mutex "UnityHotReloadHandler": owner process (0: none) and recursion count
    prefs,    \* EditorPrefs: UnityHotReloadHandler_LastPort, _WasRunning and _DebugLogs
    ext,      \* ports bound by other programs
    linger,   \* ports of just-closed listeners the OS has not released yet
    osLinger, \* whether the OS keeps the port of a closed listener busy for a while
    conn,     \* client connections, as the listener side sees them
    client    \* the extension's socket client: the module state of socketConnection.ts

vars == <<host, mutex, prefs, ext, linger, osLinger, conn, client>>

FreeThread ==
    [pc |-> "free", kind |-> "general", ports |-> <<>>, idx |-> 0, attempt |-> 0,
     max |-> 0, port |-> 0, sock |-> FALSE]

NoConn == [st |-> "none", h |-> 0, t |-> 0, stream |-> <<>>]

NoTick == [n |-> 0, refreshes |-> 0, failed |-> FALSE, escaped |-> FALSE]

\* The three monitors of the handler and the threads that enter them: who owns each
\* lock, where each thread is in its critical sections, and isServerRunning as the
\* loops of the threads read it.
Locks == {"messageQueue", "mainThreadActionsLock", "clientListLock"}
Agents == {"main", "listener", "reader"}
NoLocks ==
    [owner |-> [l \in Locks |-> "none"],
     pc |-> [a \in Agents |-> IF a = "main" THEN "idle" ELSE "none"],
     running |-> FALSE]

\* The statics after the static constructor has run against EditorPrefs p.
StaticConstructor(p) ==
    [phase |-> "loaded",
     showDebugLogs |-> p.debug,
     isInitialized |-> FALSE,
     isServerRunning |-> FALSE,
     currentPort |-> p.lastPort,
     lastSuccessfulPort |-> p.lastPort,
     shouldRequestRefresh |-> FALSE,
     wasRunningBeforeReload |-> p.wasRunning,
     delayCall |-> TRUE,
     instanceMutex |-> FALSE,
     server |-> NULL,
     listenerThread |-> NULL,
     thr |-> [t \in Tids |-> FreeThread],
     messageQueue |-> <<>>,
     mainThreadActions |-> 0,
     connectedClients |-> {},
     readers |-> {},
     mainPc |-> "idle",
     cont |-> "none",
     attempt |-> 0,
     portToReuse |-> 0,
     lastOp |-> "none",
     lastTick |-> NoTick,
     reloads |-> 0,
     wasListening |-> FALSE,
     sawFree |-> FALSE,
     startedBeforeReload |-> FALSE,
     lk |-> NoLocks]

World == [host |-> host, mutex |-> mutex, prefs |-> prefs, linger |-> linger, conn |-> conn]

Commit(w) ==
    /\ host' = w.host
    /\ mutex' = w.mutex
    /\ prefs' = w.prefs
    /\ linger' = w.linger
    /\ conn' = w.conn
    /\ UNCHANGED <<ext, osLinger, client>>

SetHost(w, h, s) == [w EXCEPT !.host[h] = s]

\* ------------------------------------------------------------ ports, sockets
Bound(w, p) ==
    \E h \in Hosts, t \in Tids : w.host[h].thr[t].sock /\ w.host[h].thr[t].port = p

\* A bind that does not see the sockets of other programs.
PortFreeAmongOwn(w, p) == p \notin w.linger /\ ~Bound(w, p)

PortFree(w, p) == p \notin ext /\ p \notin w.linger /\ ~Bound(w, p)

\* IsPortInUse: a probe bind that fails reports the port in use.
IsPortInUse(w, p) == ~PortFree(w, p)

Alive(th) == th.pc \in {"start", "bind", "rec", "loop"}

ThreadAlive(s, ref) == ref \in Tids /\ Alive(s.thr[ref])

\* Bookkeeping of the model: the slot of an ended thread whose listener is closed is
\* reused; a reference to an ended thread, or to a listener that is not listening,
\* reads ENDED.
Norm(s) ==
    LET thr2 == [t \in Tids |->
                    IF s.thr[t].pc = "dead"
                    THEN IF s.thr[t].sock
                         THEN [FreeThread EXCEPT !.pc = "dead", !.port = s.thr[t].port, !.sock = TRUE]
                         ELSE FreeThread
                    ELSE s.thr[t]]
    IN [s EXCEPT
          !.thr = thr2,
          !.listenerThread =
              IF s.listenerThread \in Tids /\ ~Alive(thr2[s.listenerThread])
              THEN ENDED ELSE s.listenerThread,
          !.server =
              IF s.server \in Tids /\ ~thr2[s.server].sock THEN ENDED ELSE s.server]

\* Closing listener t of process h: the port is released, at once or after a while;
\* connections still in its backlog are reset.
CloseListener(w, h, t) ==
    LET th == w.host[h].thr[t] IN
    IF ~th.sock THEN w
    ELSE [w EXCEPT
            !.host[h].thr[t].sock = FALSE,
            !.linger = IF osLinger THEN w.linger \cup {th.port} ELSE w.linger,
            !.conn = [c \in Conns |->
                        IF w.conn[c].st = "pending" /\ w.conn[c].h = h /\ w.conn[c].t = t
                        THEN NoConn ELSE w.conn[c]]]

\* ------------------------------------------------------- listener threads
\* The try order of ListenerThreadFunction: currentPort, then lastSuccessfulPort,
\* then the alternative ports, each port once.
RECURSIVE AddPorts(_, _)
AddPorts(list, i) ==
    IF i > Len(ALTERNATIVE_PORTS) THEN list
    ELSE AddPorts(IF Contains(list, ALTERNATIVE_PORTS[i]) THEN list
                  ELSE Append(list, ALTERNATIVE_PORTS[i]), i + 1)

\* The try order with lastSuccessfulPort ahead of currentPort.
PortsToTryLastFirst(cur, last) ==
    LET a == IF last > 0 THEN <<last>> ELSE <<>>
        b == IF cur > 0 /\ ~Contains(a, cur) THEN Append(a, cur) ELSE a
    IN AddPorts(b, 1)

PortsToTry(cur, last) ==
    LET a == IF cur > 0 THEN <<cur>> ELSE <<>>
        b == IF last > 0 /\ ~Contains(a, last) THEN Append(a, last) ELSE a
    IN AddPorts(b, 1)

\* maxAttempts of one candidate: a preferred port is tried PORT_RETRY_ATTEMPTS times.
MaxAttempts(port, cur, last) ==
    IF port = cur \/ port = last THEN PORT_RETRY_ATTEMPTS ELSE 1

\* The finally block of RunServerLoop, run by thread t of process h, which then ends.
RunServerLoopFinally(w, h, t) ==
    LET s == w.host[h]
        w1 == IF s.server \in Tids THEN CloseListener(w, h, s.server) ELSE w
        s1 == w1.host[h]
    IN SetHost(w1, h, Norm([s1 EXCEPT !.server = NULL,
                                       !.isServerRunning = FALSE,
                                       !.thr[t].pc = "dead"]))

\* Thread.Abort on thread t: the thread ends where it is; inside RunServerLoop its
\* finally block runs; ListenerThreadFunctionSpecificPort catches the abort and
\* clears isServerRunning.
KillThread(w, h, t) ==
    LET s == w.host[h]
        th == s.thr[t]
        w1 == IF th.pc = "loop" THEN RunServerLoopFinally(w, h, t)
              ELSE SetHost(w, h, [s EXCEPT !.thr[t].pc = "dead"])
        s1 == w1.host[h]
    IN SetHost(w1, h, Norm([s1 EXCEPT !.isServerRunning =
                               IF th.kind = "specific" THEN FALSE ELSE s1.isServerRunning]))

FreeSlots(s) == {t \in Tids : s.thr[t].pc = "free"}

\* new Thread(...).Start(): the thread takes the lowest free slot of the model; with
\* no slot left the caller is marked "nospawn" and the step is not taken.
Spawn(s, kind, port) ==
    IF FreeSlots(s) = {} THEN [s EXCEPT !.mainPc = "nospawn"]
    ELSE LET t == CHOOSE x \in FreeSlots(s) : \A y \in FreeSlots(s) : x <= y
         IN [s EXCEPT
               !.listenerThread = t,
               !.thr[t] = IF kind = "specific"
                          THEN [FreeThread EXCEPT !.pc = "bind", !.kind = "specific",
                                                  !.ports = <<port>>, !.idx = 1, !.max = 1]
                          ELSE [FreeThread EXCEPT !.pc = "start"]]

\* ListenerThreadFunction, lines 526-548: the try order is built from the statics.
ThreadStart(h, t) ==
    LET s == host[h]
        ports == PortsToTry(s.currentPort, s.lastSuccessfulPort)
    IN /\ s.thr[t].pc = "start"
       /\ host' = [host EXCEPT ![h].thr[t] =
                      [s.thr[t] EXCEPT !.pc = "bind", !.ports = ports, !.idx = 1, !.attempt = 0,
                                       !.max = MaxAttempts(ports[1], s.currentPort,
                                                           s.lastSuccessfulPort)]]
       /\ UNCHANGED <<mutex, prefs, ext, linger, osLinger, conn, client>>

\* One bind attempt that finds the port free: server = new TcpListener; server.Start();
\* currentPort = port.
BindSucceeds(w, h, t) ==
    LET s == w.host[h]
        th == s.thr[t]
        port == th.ports[th.idx]
    IN SetHost(w, h, Norm([s EXCEPT !.server = t,
                                    !.currentPort = port,
                                    !.thr[t].port = port,
                                    !.thr[t].sock = TRUE,
                                    !.thr[t].pc = "rec"]))

\* A failing bind attempt of a thread that lacks the "if (!serverStarted) return": after
\* the last candidate it goes on to set isServerRunning and to run the server loop.
BindFailsThenRuns(w, h, t) ==
    LET s == w.host[h]
        th == s.thr[t]
        s1 == [s EXCEPT !.server = ENDED]
    IN IF th.kind = "specific"
       THEN SetHost(w, h, Norm([s1 EXCEPT !.isServerRunning = FALSE, !.thr[t].pc = "dead"]))
       ELSE IF th.attempt + 1 < th.max
       THEN SetHost(w, h, [s1 EXCEPT !.thr[t].attempt = th.attempt + 1])
       ELSE IF th.idx < Len(th.ports)
       THEN SetHost(w, h, [s1 EXCEPT !.thr[t].idx = th.idx + 1, !.thr[t].attempt = 0])
       ELSE SetHost(w, h, [s1 EXCEPT !.isServerRunning = TRUE, !.thr[t].pc = "loop"])

\* A failing bind attempt that is retried on the same candidate without a bound.
BindFailsRetriesForever(w, h, t) ==
    LET s == w.host[h]
        th == s.thr[t]
        s1 == [s EXCEPT !.server = ENDED]
    IN IF th.kind = "specific"
       THEN SetHost(w, h, Norm([s1 EXCEPT !.isServerRunning = FALSE, !.thr[t].pc = "dead"]))
       ELSE SetHost(w, h, s1)

\* One bind attempt that fails with "address already in use": the general thread
\* retries the candidate, moves to the next one, or gives up after the last; the
\* specific-port thread clears isServerRunning and ends.
BindFails(w, h, t) ==
    LET s == w.host[h]
        th == s.thr[t]
        s1 == [s EXCEPT !.server = ENDED]
    IN IF th.kind = "specific"
       THEN SetHost(w, h, Norm([s1 EXCEPT !.isServerRunning = FALSE, !.thr[t].pc = "dead"]))
       ELSE IF th.attempt + 1 < th.max
       THEN SetHost(w, h, [s1 EXCEPT !.thr[t].attempt = th.attempt + 1])
       ELSE IF th.idx < Len(th.ports)
       THEN SetHost(w, h, [s1 EXCEPT !.thr[t].idx = th.idx + 1,
                                     !.thr[t].attempt = 0,
                                     !.thr[t].max = MaxAttempts(th.ports[th.idx + 1],
                                                     s.currentPort, s.lastSuccessfulPort)])
       ELSE SetHost(w, h, Norm([s1 EXCEPT !.thr[t].pc = "dead"]))

\* sawFree records that a bind attempt of the specific-port thread was made while no
\* other program and no closed listener held the port.
Bind(h, t) ==
    LET th == host[h].thr[t]
        port == th.ports[th.idx]
        w == [World EXCEPT !.host[h].sawFree =
                 @ \/ (th.kind = "specific" /\ port \notin ext /\ port \notin linger)]
    IN /\ th.pc = "bind"
       /\ Commit(IF PortFree(w, port) THEN BindSucceeds(w, h, t) ELSE BindFails(w, h, t))

\* One bind attempt that fails with another error than "address already in use" (access
\* denied on a reserved port, for one): the catch blocks of lines 605-615 log it and
\* return, leaving the unstarted listener in the static server; the specific-port
\* thread clears isServerRunning in its catch.
BindError(h, t) ==
    LET s == host[h]
        th == s.thr[t]
    IN /\ th.pc = "bind"
       /\ Commit(SetHost(World, h,
             Norm([s EXCEPT !.server = ENDED,
                            !.isServerRunning = IF th.kind = "specific" THEN FALSE ELSE @,
                            !.thr[t].pc = "dead"])))

\* A listener thread that does not queue the EditorPrefs write after its bind.
RecordForgetsPrefs(h, t) ==
    LET s == host[h]
        th == s.thr[t]
    IN /\ th.pc = "rec"
       /\ host' = [host EXCEPT ![h] =
                      [s EXCEPT !.lastSuccessfulPort = th.port,
                                !.isServerRunning = TRUE,
                                !.thr[t].pc = "loop"]]
       /\ UNCHANGED <<mutex, prefs, ext, linger, osLinger, conn, client>>

\* A listener thread that writes the port to EditorPrefs itself.
RecordWritesDirectly(h, t) ==
    LET s == host[h]
        th == s.thr[t]
    IN /\ th.pc = "rec"
       /\ s.mainThreadActions < MaxActions
       /\ host' = [host EXCEPT ![h] =
                      [s EXCEPT !.lastSuccessfulPort = th.port,
                                !.isServerRunning = TRUE,
                                !.thr[t].pc = "loop"]]
       /\ prefs' = [prefs EXCEPT !.lastPort = th.port]
       /\ UNCHANGED <<mutex, ext, linger, osLinger, conn, client>>

\* After the bind: lastSuccessfulPort = port; the EditorPrefs write is queued for the
\* main thread; isServerRunning = true; RunServerLoop is entered.
Record(h, t) ==
    LET s == host[h]
        th == s.thr[t]
    IN /\ th.pc = "rec"
       /\ s.mainThreadActions < MaxActions
       /\ host' = [host EXCEPT ![h] =
                      [s EXCEPT !.lastSuccessfulPort = th.port,
                                !.mainThreadActions = s.mainThreadActions + 1,
                                !.isServerRunning = TRUE,
                                !.thr[t].pc = "loop"]]
       /\ UNCHANGED <<mutex, prefs, ext, linger, osLinger, conn, client>>

\* RunServerLoop leaves its loop when isServerRunning is false, or when server.Pending()
\* throws because the static server is null or not listening; the finally block runs.
LoopExit(h, t) ==
    LET s == host[h] IN
    /\ s.thr[t].pc = "loop"
    /\ ~s.isServerRunning \/ s.server \notin Tids
    /\ Commit(RunServerLoopFinally(World, h, t))

\* ------------------------------------------------------------ main thread
\* The block "if (instanceMutex != null) { try { ReleaseMutex(); Close(); } catch { }
\* instanceMutex = null; }": ReleaseMutex lowers the recursion count of the owner and
\* throws, caught, when the process does not own the mutex.
ReleaseInstanceMutex(w, h) ==
    IF ~w.host[h].instanceMutex THEN w
    ELSE [w EXCEPT
            !.mutex = IF w.mutex.owner # h THEN w.mutex
                      ELSE IF w.mutex.count = 1 THEN [owner |-> 0, count |-> 0]
                      ELSE [owner |-> h, count |-> w.mutex.count - 1],
            !.host[h].instanceMutex = FALSE]

\* A StopServer that also empties the pending-message queue.
StopServerSocketsDropsQueue(w, h) ==
    LET s == w.host[h]
        w1 == [w EXCEPT !.conn = [c \in Conns |->
                                     IF c \in s.connectedClients THEN NoConn ELSE w.conn[c]]]
        w2 == IF s.server \in Tids THEN CloseListener(w1, h, s.server) ELSE w1
    IN SetHost(w2, h, Norm([w2.host[h] EXCEPT !.isServerRunning = FALSE,
                                             !.connectedClients = {},
                                             !.messageQueue = <<>>,
                                             !.server = NULL]))

\* StopServer up to its Join: the flag is cleared, the tracked clients are closed and
\* forgotten, the listener is stopped and the static server is set to null.
StopServerSockets(w, h) ==
    LET s == w.host[h]
        w1 == [w EXCEPT !.conn = [c \in Conns |->
                                     IF c \in s.connectedClients THEN NoConn ELSE w.conn[c]]]
        w2 == IF s.server \in Tids THEN CloseListener(w1, h, s.server) ELSE w1
    IN SetHost(w2, h, Norm([w2.host[h] EXCEPT !.isServerRunning = FALSE,
                                             !.connectedClients = {},
                                             !.server = NULL]))

\* What the handler that called StopServer (or StartListenerThread) does after it.
Continue(w, h, cont) ==
    LET s == [w.host[h] EXCEPT !.mainPc = "idle", !.cont = "none"]
        w0 == SetHost(w, h, s)
    IN CASE cont = "Start" ->
              [SetHost(w, h, [Spawn(s, "general", 0) EXCEPT !.isInitialized = TRUE])
                  EXCEPT !.prefs.wasRunning = TRUE]
         [] cont = "StartWithoutMutex" ->
              SetHost(w, h, [Spawn(s, "general", 0) EXCEPT !.isInitialized = TRUE])
         [] cont = "Stop" ->
              LET w1 == ReleaseInstanceMutex(w0, h)
              IN [w1 EXCEPT !.host[h].isInitialized = FALSE, !.prefs.wasRunning = FALSE]
         [] cont = "OnEditorQuitting" ->
              LET w1 == ReleaseInstanceMutex(w0, h)
              IN [w1 EXCEPT !.host[h].isInitialized = FALSE, !.prefs.wasRunning = FALSE,
                            !.host[h].phase = "quit"]
         [] cont = "Reload" ->
              SetHost(w, h, LET s1 == Spawn([s EXCEPT !.currentPort = s.portToReuse],
                                            "specific", s.portToReuse)
                            IN IF s1.mainPc = "nospawn" THEN s1
                               ELSE [s1 EXCEPT !.mainPc = "reload_wait", !.attempt = 0])
         [] cont = "ReloadFallback" ->
              SetHost(w, h, Spawn(s, "general", 0))
         [] OTHER ->
              [w0 EXCEPT !.host[h].phase = "unloaded"]

\* StopServer followed by the rest of its caller.  When the listener thread is alive
\* the main thread blocks in Join(1000) and the rest runs when the Join is over.
StopServerThen(w, h, cont) ==
    LET w1 == StopServerSockets(w, h)
        s1 == w1.host[h]
    IN IF ThreadAlive(s1, s1.listenerThread)
       THEN SetHost(w1, h, [s1 EXCEPT !.mainPc = "join", !.cont = cont])
       ELSE Continue(w1, h, cont)

\* StartListenerThread followed by the rest of its caller.
StartListenerThreadThen(w, h, cont) ==
    IF ThreadAlive(w.host[h], w.host[h].listenerThread)
    THEN StopServerThen(w, h, cont)
    ELSE Continue(w, h, cont)

\* A Start that reports "already running" whenever another process holds the mutex.
StartBodySkipsWhenLocked(w, h) ==
    LET s == w.host[h] IN
    IF s.isInitialized /\ s.isServerRunning THEN w
    ELSE IF w.mutex.owner \in {0, h}
    THEN StartListenerThreadThen(
             [w EXCEPT !.mutex = [owner |-> h, count |-> w.mutex.count + 1],
                       !.host[h].instanceMutex = TRUE], h, "Start")
    ELSE [w EXCEPT !.host[h].instanceMutex = FALSE]

\* A Start whose skip path marks the handler initialized and persists the flag.
StartBodyInitializesOnSkip(w, h) ==
    LET s == w.host[h] IN
    IF s.isInitialized /\ s.isServerRunning THEN w
    ELSE IF w.mutex.owner \in {0, h}
    THEN StartListenerThreadThen(
             [w EXCEPT !.mutex = [owner |-> h, count |-> w.mutex.count + 1],
                       !.host[h].instanceMutex = TRUE], h, "Start")
    ELSE IF ~IsPortInUse(w, s.currentPort)
    THEN StartListenerThreadThen([w EXCEPT !.host[h].instanceMutex = FALSE], h, "Start")
    ELSE [w EXCEPT !.host[h].instanceMutex = FALSE, !.host[h].isInitialized = TRUE,
                   !.prefs.wasRunning = TRUE]

\* The body of Start().
StartBody(w, h) ==
    LET s == w.host[h] IN
    IF s.isInitialized /\ s.isServerRunning THEN w
    ELSE IF w.mutex.owner \in {0, h}
    THEN \* created new, or WaitOne(100) succeeded: the calling thread owns the mutex
         StartListenerThreadThen(
             [w EXCEPT !.mutex = [owner |-> h, count |-> w.mutex.count + 1],
                       !.host[h].instanceMutex = TRUE], h, "Start")
    ELSE IF ~IsPortInUse(w, s.currentPort)
    THEN \* the mutex is held elsewhere but the port is free: proceed without it
         StartListenerThreadThen([w EXCEPT !.host[h].instanceMutex = FALSE], h, "Start")
    ELSE \* another instance is running: skip
         [w EXCEPT !.host[h].instanceMutex = FALSE]

Callable(h) == host[h].phase = "loaded" /\ host[h].mainPc = "idle"

Spawned(w, h) == w.host[h].mainPc # "nospawn"

Called(w, h, op) == [w EXCEPT !.host[h].lastOp = op]

Start(h) ==
    /\ Callable(h)
    /\ mutex.owner = h => mutex.count < MaxLockCount
    /\ LET w == StartBody(Called(World, h, "Start"), h)
       IN Spawned(w, h) /\ Commit(w)

\* Stop() without its "if (!isInitialized) return".
StopBodyUnguarded(w, h, cont) == StopServerThen(w, h, cont)

\* The body of Stop().
StopBody(w, h, cont) ==
    IF ~w.host[h].isInitialized THEN w
    ELSE StopServerThen(w, h, cont)

Stop(h) ==
    /\ Callable(h)
    /\ Commit(StopBody(Called(World, h, "Stop"), h, "Stop"))

\* Reload(): not initialized, it is Start(); otherwise the port is kept, the server is
\* stopped and the retry loop on that port begins.  reloads counts these reloads, and
\* wasListening records whether the listener was running when Reload was called.
Reload(h) ==
    /\ Callable(h)
    /\ mutex.owner = h => mutex.count < MaxLockCount
    /\ host[h].isInitialized => host[h].reloads < MaxReloads
    /\ LET w0 == Called(World, h, "Reload")
           s == w0.host[h]
           w == IF ~s.isInitialized THEN StartBody(w0, h)
                ELSE StopServerThen([w0 EXCEPT !.host[h].portToReuse = s.currentPort,
                                               !.host[h].reloads = s.reloads + 1,
                                               !.host[h].wasListening =
                                                   s.isServerRunning /\ s.server \in Tids,
                                               !.host[h].sawFree = FALSE],
                                    h, "Reload")
       IN Spawned(w, h) /\ Commit(w)

\* The Join in StopServer returns because the thread has ended.
JoinReturns(h) ==
    LET s == host[h] IN
    /\ s.mainPc = "join"
    /\ ~ThreadAlive(s, s.listenerThread)
    /\ LET w == Continue([World EXCEPT !.host[h].listenerThread = NULL], h, s.cont)
       IN Spawned(w, h) /\ Commit(w)

\* The Join times out on a thread still alive: Thread.Abort.
JoinTimesOut(h) ==
    LET s == host[h] IN
    /\ s.mainPc = "join"
    /\ ThreadAlive(s, s.listenerThread)
    /\ LET w1 == KillThread(World, h, s.listenerThread)
           w == Continue([w1 EXCEPT !.host[h].listenerThread = NULL], h, s.cont)
       IN Spawned(w, h) /\ Commit(w)

\* A retry loop of Reload that gives up the port after its first failed attempt.
ReloadCheckFallsBackAtOnce(h) ==
    LET s == host[h] IN
    /\ s.mainPc = "reload_wait"
    /\ LET w == IF s.isServerRunning
                THEN [World EXCEPT !.host[h].mainPc = "idle"]
                ELSE StartListenerThreadThen(World, h, "ReloadFallback")
       IN Spawned(w, h) /\ Commit(w)

\* TryStartOnSpecificPort returns isServerRunning after its Sleep(100); the retry loop
\* of Reload goes on, and after PORT_RETRY_ATTEMPTS failures StartListenerThread runs.
ReloadCheck(h) ==
    LET s == host[h] IN
    /\ s.mainPc = "reload_wait"
    /\ LET w == IF s.isServerRunning
                THEN [World EXCEPT !.host[h].mainPc = "idle"]
                ELSE IF s.attempt + 1 < PORT_RETRY_ATTEMPTS
                THEN SetHost(World, h,
                        LET s1 == Spawn([s EXCEPT !.currentPort = s.portToReuse],
                                        "specific", s.portToReuse)
                        IN IF s1.mainPc = "nospawn" THEN s1
                           ELSE [s1 EXCEPT !.attempt = s.attempt + 1])
                ELSE StartListenerThreadThen(World, h, "ReloadFallback")
       IN Spawned(w, h) /\ Commit(w)

\* OnBeforeAssemblyReload, then the teardown of the scripting domain.
OnBeforeAssemblyReload(h) ==
    /\ Callable(h)
    /\ LET s == host[h]
           w0 == Called(World, h, "OnBeforeAssemblyReload")
           w1 == IF s.isInitialized /\ s.isServerRunning
                 THEN [w0 EXCEPT !.prefs.wasRunning = TRUE] ELSE w0
           w2 == ReleaseInstanceMutex(w1, h)
       IN Commit(StopServerThen(w2, h, "OnBeforeAssemblyReload"))

\* ToggleDebugLogs, a menu command.
ToggleDebugLogs(h) ==
    /\ Callable(h)
    /\ host' = [host EXCEPT ![h].showDebugLogs = ~host[h].showDebugLogs]
    /\ prefs' = [prefs EXCEPT !.debug = ~host[h].showDebugLogs]
    /\ UNCHANGED <<mutex, ext, linger, osLinger, conn, client>>

\* OnEditorQuitting.
OnEditorQuitting(h) ==
    /\ Callable(h)
    /\ LET w0 == [Called(World, h, "OnEditorQuitting") EXCEPT !.prefs.wasRunning = FALSE]
       IN Commit(IF ~host[h].isInitialized
                 THEN [w0 EXCEPT !.host[h].phase = "quit"]
                 ELSE StopServerThen(w0, h, "OnEditorQuitting"))

RECURSIVE CloseAll(_, _, _)
CloseAll(w, h, ts) ==
    IF ts = {} THEN w
    ELSE LET t == CHOOSE x \in ts : TRUE IN CloseAll(CloseListener(w, h, t), h, ts \ {t})

\* The new scripting domain: the threads and sockets of the old one are gone, the
\* static constructor runs and registers the delayed auto-start.  startedBeforeReload
\* records whether the handler was started, and not stopped, when the old domain ended.
DomainLoad(h) ==
    /\ host[h].phase = "unloaded"
    /\ LET w1 == CloseAll(World, h, Tids)
           w2 == [w1 EXCEPT !.conn = [c \in Conns |->
                                IF w1.conn[c].h = h THEN NoConn ELSE w1.conn[c]]]
       IN Commit(SetHost(w2, h, [StaticConstructor(prefs) EXCEPT
                                    !.startedBeforeReload =
                                        \/ host[h].isInitialized
                                        \/ host[h].delayCall /\ host[h].startedBeforeReload]))

\* The delayCall of the static constructor, with StartWithoutMutex.
DelayCall(h) ==
    /\ Callable(h)
    /\ host[h].delayCall
    /\ LET s == host[h]
           w0 == [World EXCEPT !.host[h].delayCall = FALSE]
           w == IF ~s.isInitialized /\ s.wasRunningBeforeReload
                THEN StartListenerThreadThen(
                        [Called(w0, h, "StartWithoutMutex") EXCEPT !.prefs.wasRunning = FALSE],
                        h, "StartWithoutMutex")
                ELSE w0
       IN Spawned(w, h) /\ Commit(w)

\* A tick that drops the request for a refresh.
RefreshDropped(flag, queue) == 0

\* A tick that calls RefreshAssets from ProcessMessage, once per message that asks for it.
RECURSIVE RefreshPerMessage(_, _)
RefreshPerMessage(flag, queue) ==
    IF queue = <<>> THEN 0
    ELSE (IF ProcessMessage(FALSE, Head(queue)) THEN 1 ELSE 0)
         + RefreshPerMessage(flag, Tail(queue))

\* OnEditorUpdate: the queued messages are processed, the queued main-thread actions
\* (each writes lastSuccessfulPort to EditorPrefs) are run, and RefreshAssets is
\* invoked when shouldRequestRefresh is set.
RefreshInvocations(flag, queue) == IF ProcessAll(flag, queue) THEN 1 ELSE 0

\* RefreshAssets without its try and catch: an exception of the refresh leaves the tick.
RefreshAssetsUncaught(tick, throws) == [tick EXCEPT !.failed = throws, !.escaped = throws]

\* RefreshAssets: the refresh runs in a try block, an exception is logged by the catch.
RefreshAssets(tick, throws) == [tick EXCEPT !.failed = throws]

OnEditorUpdate(h) ==
    LET s == host[h]
        tick == [NoTick EXCEPT !.n = Len(s.messageQueue),
                               !.refreshes = RefreshInvocations(s.shouldRequestRefresh,
                                                                s.messageQueue)]
    IN
    /\ Callable(h)
    /\ \E throws \in BOOLEAN :
          host' = [host EXCEPT ![h] =
                      [s EXCEPT !.messageQueue = <<>>,
                                !.mainThreadActions = 0,
                                !.shouldRequestRefresh = FALSE,
                                !.lastTick = IF tick.refreshes > 0
                                             THEN RefreshAssets(tick, throws) ELSE tick]]
    /\ prefs' = IF s.mainThreadActions > 0
                THEN [prefs EXCEPT !.lastPort = s.lastSuccessfulPort] ELSE prefs
    /\ UNCHANGED <<mutex, ext, linger, osLinger, conn, client>>

GetCurrentPort(h) == IF host[h].isServerRunning THEN host[h].currentPort ELSE -1

\* ------------------------------------------------------------- connections
\* A client connects to a listening socket of process h and waits in its backlog.
PeerConnect(c, h) ==
    /\ conn[c].st = "none"
    /\ \A g \in Hosts : c \notin host[g].readers
    /\ \E t \in Tids :
          /\ host[h].thr[t].sock
          /\ conn' = [conn EXCEPT ![c] = [st |-> "pending", h |-> h, t |-> t, stream |-> <<>>]]
    /\ UNCHANGED <<host, mutex, prefs, ext, linger, osLinger, client>>

\* The client writes one payload.
PeerSend(c, payload) ==
    /\ conn[c].st \in {"pending", "open"}
    /\ Len(conn[c].stream) < MaxStream
    /\ conn' = [conn EXCEPT ![c].stream = Append(conn[c].stream, payload)]
    /\ UNCHANGED <<host, mutex, prefs, ext, linger, osLinger, client>>

\* An accept loop that takes a connection only while no other connection is being read.
AcceptClientOneAtATime(h, t) ==
    LET s == host[h] IN
    /\ s.thr[t].pc = "loop"
    /\ s.isServerRunning
    /\ s.server \in Tids
    /\ s.readers = {}
    /\ \E c \in Conns :
          /\ conn[c].st = "pending" /\ conn[c].h = h /\ conn[c].t = s.server
          /\ conn' = [conn EXCEPT ![c].st = "open"]
          /\ host' = [host EXCEPT ![h].connectedClients = s.connectedClients \cup {c},
                                  ![h].readers = s.readers \cup {c}]
    /\ UNCHANGED <<mutex, prefs, ext, linger, osLinger, client>>

\* The peer closes its end of an accepted connection in the orderly way (FIN); what it
\* sent before stays readable.
PeerClose(c) ==
    /\ conn[c].st = "open"
    /\ conn' = [conn EXCEPT ![c].st = "peerclosed"]
    /\ UNCHANGED <<host, mutex, prefs, ext, linger, osLinger, client>>

\* TcpClient.Connected of the accepted client c in process h: the state of the socket as
\* of its last I/O operation.  It is true from the accept until the client object is
\* closed by the process; the close of the peer does not change it, because the reader
\* calls Read only when DataAvailable, and such a Read returns data.
Connected(c, h) == conn[c].st \in {"open", "peerclosed"} /\ conn[c].h = h

\* RunServerLoop, lines 645-665: a pending connection on the static server is accepted,
\* tracked and handed to a new HandleClient thread.
AcceptClient(h, t) ==
    LET s == host[h] IN
    /\ s.thr[t].pc = "loop"
    /\ s.isServerRunning
    /\ s.server \in Tids
    /\ \E c \in Conns :
          /\ conn[c].st = "pending" /\ conn[c].h = h /\ conn[c].t = s.server
          /\ conn' = [conn EXCEPT ![c].st = "open"]
          /\ host' = [host EXCEPT ![h].connectedClients = s.connectedClients \cup {c},
                                  ![h].readers = s.readers \cup {c}]
    /\ UNCHANGED <<mutex, prefs, ext, linger, osLinger, client>>

\* HandleClient, lines 746-760: one Read returns the bytes that have arrived, and the
\* text is queued for the main thread.
HandleClientRead(h, c) ==
    LET s == host[h] IN
    /\ c \in s.readers
    /\ Connected(c, h)
    /\ s.isServerRunning
    /\ conn[c].stream # <<>>
    /\ Len(s.messageQueue) < MaxQueue
    /\ host' = [host EXCEPT ![h].messageQueue = Append(s.messageQueue, Concat(conn[c].stream))]
    /\ conn' = [conn EXCEPT ![c].stream = <<>>]
    /\ UNCHANGED <<mutex, prefs, ext, linger, osLinger, client>>

\* HandleClient leaves its loop (the server stopped, or the client object was closed
\* under it) and its finally block untracks and closes the client.  With nothing to
\* read DataAvailable is false and the loop sleeps and polls again.
HandleClientExit(h, c) ==
    LET s == host[h] IN
    /\ c \in s.readers
    /\ ~s.isServerRunning \/ ~Connected(c, h)
    /\ host' = [host EXCEPT ![h].readers = s.readers \ {c},
                            ![h].connectedClients = s.connectedClients \ {c}]
    /\ conn' = [conn EXCEPT ![c] = IF Connected(c, h) THEN NoConn ELSE conn[c]]
    /\ UNCHANGED <<mutex, prefs, ext, linger, osLinger, client>>

\* The OS releases the port of a closed listener.
OsReleasesPort(p) ==
    /\ p \in linger
    /\ linger' = linger \ {p}
    /\ UNCHANGED <<host, mutex, prefs, ext, osLinger, conn, client>>

\* ------------------------------------------- the extension's socket client
\* socketConnection.ts runs on one event loop: each action below is one callback (or one
\* command) run to completion, with the promise continuations it schedules.
DEFAULT_UNITY_HOT_RELOAD_PORT == 55500
CLIENT_PORTS == <<55500, 55501, 55502, 55503, 55504>>
ClientPortSet == {CLIENT_PORTS[i] : i \in 1..Len(CLIENT_PORTS)}
Calls == 1..MaxCalls

\* socketClient: undefined ("none"), or a socket that is connecting, connected or destroyed;
\* portIndex, call and tried belong to the closure of its handlers.
NoSocket == [st |-> "none", portIndex |-> 0, call |-> 0, tried |-> <<>>]
NoCall == [st |-> "none", isInitialAttempt |-> FALSE, origin |-> "none", value |-> NULL,
           writes |-> 0]

InitialClient(accepting) ==
    [currentPort |-> DEFAULT_UNITY_HOT_RELOAD_PORT,
     socketClient |-> NoSocket,
     isConnecting |-> FALSE,
     call |-> [k \in Calls |-> NoCall],
     closing |-> 0,
     timers |-> 0,
     hotReloadActive |-> FALSE,
     connectedPort |-> NULL,
     errorsShown |-> 0,
     written |-> 0,
     accepting |-> accepting,
     outages |-> 0,
     live |-> 0]

SocketLive(s) == s.st \in {"connecting", "connected"}
FreeCalls(c) == {k \in Calls : c.call[k].st = "none"}
NewCall(c) == CHOOSE k \in FreeCalls(c) : \A j \in FreeCalls(c) : k <= j
Bump(n, max) == IF n < max THEN n + 1 ELSE n

\* socket.destroy(): a live socket gets its 'close' event later, a destroyed one nothing.
\* live counts the sockets created by "new net.Socket()" that are not destroyed.
Destroy(c) ==
    IF SocketLive(c.socketClient)
    THEN [c EXCEPT !.closing = Bump(@, MaxClosing), !.socketClient.st = "destroyed",
                   !.live = @ - 1]
    ELSE c

ReportConnectionStatus(c, port, isActive) ==
    [c EXCEPT !.connectedPort = port, !.hotReloadActive = isActive]

RECURSIVE connectToUnity(_, _, _)
RECURSIVE triggerUnityRefresh(_, _)

ThenSkipsRetry(c, k, port) ==
    CASE c.call[k].origin \in {"timer", "trigger"} ->
            ReportConnectionStatus(c, port, port # NULL)
      [] c.call[k].origin = "command" ->
            IF port # NULL
            THEN [c EXCEPT !.connectedPort = port]
            ELSE [c EXCEPT !.hotReloadActive = FALSE, !.connectedPort = NULL]
      [] OTHER -> c

\* The continuation of the promise of call k, by who called connectToUnity.
Then(c, k, port) ==
    CASE c.call[k].origin = "timer" ->
            ReportConnectionStatus(c, port, port # NULL)
      [] c.call[k].origin = "trigger" ->
            IF port # NULL
            THEN triggerUnityRefresh(ReportConnectionStatus(c, port, TRUE), k)
            ELSE ReportConnectionStatus(c, NULL, FALSE)
      [] c.call[k].origin = "command" ->
            IF port # NULL
            THEN [c EXCEPT !.connectedPort = port]
            ELSE [c EXCEPT !.hotReloadActive = FALSE, !.connectedPort = NULL]
      [] OTHER -> c

\* resolve(port): settles the promise once; a second resolve does nothing.
Resolve(c, k, port) ==
    IF c.call[k].st # "pending" THEN c
    ELSE Then([c EXCEPT !.call[k].st = "resolved", !.call[k].value = port], k, port)

tryConnectToPortAlwaysShows(c, portIndex, k, tried) ==
    IF portIndex >= Len(CLIENT_PORTS)
    THEN Resolve([c EXCEPT !.errorsShown = @ + 1, !.isConnecting = FALSE], k, NULL)
    ELSE [c EXCEPT !.socketClient =
                       [st |-> "connecting", portIndex |-> portIndex, call |-> k,
                        tried |-> Append(tried, CLIENT_PORTS[portIndex + 1])],
                   !.live = @ + 1]

tryConnectToPort(c, portIndex, k, tried) ==
    IF portIndex >= Len(CLIENT_PORTS)
    THEN Resolve([c EXCEPT !.errorsShown = IF c.call[k].isInitialAttempt THEN @ + 1 ELSE @,
                           !.isConnecting = FALSE], k, NULL)
    ELSE [c EXCEPT !.socketClient =
                       [st |-> "connecting", portIndex |-> portIndex, call |-> k,
                        tried |-> Append(tried, CLIENT_PORTS[portIndex + 1])],
                   !.live = @ + 1]

\* A connectToUnity that leaves the existing socket as it is.
connectToUnityKeepsSocket(c, isInitialAttempt, origin) ==
    LET k == NewCall(c)
        c0 == [c EXCEPT !.call[k] = [st |-> "pending", isInitialAttempt |-> isInitialAttempt,
                                     origin |-> origin, value |-> NULL, writes |-> 0]]
    IN IF c.isConnecting /\ ~isInitialAttempt
       THEN Resolve(c0, k, NULL)
       ELSE tryConnectToPort([c0 EXCEPT !.isConnecting = TRUE], 0, k, <<>>)

connectToUnity(c, isInitialAttempt, origin) ==
    LET k == NewCall(c)
        c0 == [c EXCEPT !.call[k] = [st |-> "pending", isInitialAttempt |-> isInitialAttempt,
                                     origin |-> origin, value |-> NULL, writes |-> 0]]
    IN IF c.isConnecting /\ ~isInitialAttempt
       THEN Resolve(c0, k, NULL)
       ELSE LET c1 == [c0 EXCEPT !.isConnecting = TRUE]
                c2 == IF SocketLive(c1.socketClient)
                      THEN [Destroy(c1) EXCEPT !.socketClient = NoSocket]
                      ELSE c1
            IN tryConnectToPort(c2, 0, k, <<>>)

\* k is the call whose continuation retries the refresh, 0 for a call from outside.
triggerUnityRefresh(c, k) ==
    IF ~SocketLive(c.socketClient)
    THEN connectToUnity(c, FALSE, "trigger")
    ELSE [c EXCEPT !.written = Bump(@, MaxWrites),
                   !.call = IF k = 0 THEN @ ELSE [@ EXCEPT ![k].writes = @ + 1]]

connectionFailedSkipsTwo(c) ==
    LET s == c.socketClient
    IN tryConnectToPort([Destroy(c) EXCEPT !.socketClient = NoSocket],
                        s.portIndex + 3, s.call, s.tried)

connectionFailed(c) ==
    LET s == c.socketClient
    IN tryConnectToPort([Destroy(c) EXCEPT !.socketClient = NoSocket],
                        s.portIndex + 1, s.call, s.tried)

closeConnectionTriesNext(c) ==
    LET c1 == [c EXCEPT !.isConnecting = FALSE]
    IN IF c1.socketClient.st = "connecting" THEN connectionFailed(c1)
       ELSE IF c1.socketClient.st # "none"
       THEN [Destroy(c1) EXCEPT !.socketClient = NoSocket]
       ELSE c1

closeConnectionKeepsFlag(c) ==
    IF c.socketClient.st # "none"
    THEN [Destroy(c) EXCEPT !.socketClient = NoSocket]
    ELSE c

closeConnection(c) ==
    LET c1 == [c EXCEPT !.isConnecting = FALSE]
    IN IF c1.socketClient.st # "none"
       THEN [Destroy(c1) EXCEPT !.socketClient = NoSocket]
       ELSE c1

ClientStep(c) ==
    /\ client' = c
    /\ UNCHANGED <<host, mutex, prefs, ext, linger, osLinger, conn>>

\* connectToUnity called with its result ignored (extension.ts: connectToUnity()).
ConnectToUnity(isInitialAttempt) ==
    /\ FreeCalls(client) # {}
    /\ ClientStep(connectToUnity(client, isInitialAttempt, "api"))

\* The start command: attemptConnectionSequence with a linked project.
AttemptConnectionSequence ==
    /\ FreeCalls(client) # {}
    /\ ClientStep(connectToUnity([client EXCEPT !.hotReloadActive = TRUE,
                                                !.connectedPort = NULL], TRUE, "command"))

\* The stop command.
StopConnectionSequence ==
    ClientStep([closeConnection(client) EXCEPT !.hotReloadActive = FALSE,
                                               !.connectedPort = NULL])

CloseConnection ==
    ClientStep(closeConnection(client))

\* A file change, or the retry of a connection: triggerUnityRefresh from outside.
TriggerUnityRefresh ==
    /\ SocketLive(client.socketClient) \/ FreeCalls(client) # {}
    /\ ClientStep(triggerUnityRefresh(client, 0))

\* The callback given to socketClient.connect.
onConnect(c) ==
    LET s == c.socketClient
    IN Resolve([c EXCEPT !.currentPort = CLIENT_PORTS[s.portIndex + 1],
                         !.isConnecting = FALSE,
                         !.socketClient.st = "connected"],
               s.call, CLIENT_PORTS[s.portIndex + 1])

\* The connect callback of the socket in progress.
SocketConnects ==
    LET s == client.socketClient
    IN /\ s.st = "connecting"
       /\ CLIENT_PORTS[s.portIndex + 1] \in client.accepting
       /\ ClientStep(onConnect(client))

\* 'error' or 'timeout' of the socket in progress: nobody accepts on its port.
SocketFails ==
    LET s == client.socketClient
    IN /\ s.st = "connecting"
       /\ CLIENT_PORTS[s.portIndex + 1] \notin client.accepting
       /\ ClientStep(connectionFailed(client))

\* 'error' on the established connection (the peer reset it).
ConnectionError ==
    /\ client.socketClient.st = "connected"
    /\ ClientStep(connectionFailed(client))

\* The peer ends the established connection: the socket destroys itself.
PeerCloses ==
    /\ client.socketClient.st = "connected"
    /\ ClientStep(Destroy(client))

\* 'close' of a destroyed socket.
CloseEvent ==
    /\ client.closing > 0
    /\ ClientStep([client EXCEPT !.closing = @ - 1,
                                 !.isConnecting = FALSE,
                                 !.timers = Bump(@, MaxTimers)])

ReconnectTimerIgnoresNeed ==
    /\ client.timers > 0
    /\ LET c == [client EXCEPT !.timers = @ - 1]
       IN IF ~SocketLive(c.socketClient)
          THEN FreeCalls(c) # {} /\ ClientStep(connectToUnity(c, FALSE, "timer"))
          ELSE ClientStep(c)

\* The reconnect timer a 'close' handler armed.
ReconnectTimer ==
    /\ client.timers > 0
    /\ LET c == [client EXCEPT !.timers = @ - 1]
       IN IF c.hotReloadActive /\ ~SocketLive(c.socketClient)
          THEN FreeCalls(c) # {} /\ ClientStep(connectToUnity(c, FALSE, "timer"))
          ELSE ClientStep(c)

\* ------------------------------------------------------------ specifications
InitialPrefs == [lastPort |-> DEFAULT_PORT, wasRunning |-> FALSE, debug |-> FALSE]

\* The editor has loaded: the static constructor and its delayCall have run.
InitialHost == [StaticConstructor(InitialPrefs) EXCEPT !.delayCall = FALSE]

\* The ports other programs hold: none, the first candidate, the first two, or all.
ExtChoices ==
    {{}, {ALTERNATIVE_PORTS[1]}, {ALTERNATIVE_PORTS[1], ALTERNATIVE_PORTS[2]}, Ports}

InitCommon ==
    /\ host = [h \in Hosts |-> InitialHost]
    /\ mutex = [owner |-> 0, count |-> 0]
    /\ prefs = InitialPrefs
    /\ linger = {}
    /\ conn = [c \in Conns |-> NoConn]
    /\ client = InitialClient({})

ThreadStep(h) ==
    \E t \in Tids :
        \/ ThreadStart(h, t)
        \/ Bind(h, t)
        \/ Record(h, t)
        \/ LoopExit(h, t)

\* One editor process through Start, Stop, domain reloads and quit, with some of the
\* candidate ports held by other programs.
Init ==
    /\ InitCommon
    /\ ext \in ExtChoices
    /\ osLinger = FALSE

Next ==
    \/ Start(1)
    \/ Stop(1)
    \/ JoinReturns(1)
    \/ JoinTimesOut(1)
    \/ OnBeforeAssemblyReload(1)
    \/ DomainLoad(1)
    \/ DelayCall(1)
    \/ OnEditorQuitting(1)
    \/ OnEditorUpdate(1)
    \/ ToggleDebugLogs(1)
    \/ ThreadStep(1)

Spec == Init /\ [][Next]_vars

\* One editor process and its Reload command; the OS may keep the port of a closed
\* listener busy for a while.
InitReload ==
    /\ InitCommon
    /\ ext = {}
    /\ osLinger \in BOOLEAN

NextReload ==
    \/ Start(1)
    \/ Reload(1)
    \/ ReloadCheck(1)
    \/ JoinReturns(1)
    \/ JoinTimesOut(1)
    \/ OnEditorUpdate(1)
    \/ ThreadStep(1)
    \/ \E p \in Ports : OsReleasesPort(p)

SpecReload == InitReload /\ [][NextReload]_vars

\* Two editor processes that share the named mutex, the ports and EditorPrefs.
InitLock ==
    /\ InitCommon
    /\ ext = {}
    /\ osLinger = FALSE

NextLock ==
    \E h \in Hosts :
        \/ Start(h)
        \/ JoinReturns(h)
        \/ JoinTimesOut(h)
        \/ ThreadStep(h)

SpecLock == InitLock /\ [][NextLock]_vars

\* One editor process with its clients: payloads arrive, ticks process them.
InitTick ==
    /\ InitCommon
    /\ ext = {}
    /\ osLinger = FALSE

NextTick ==
    \/ Start(1)
    \/ JoinReturns(1)
    \/ JoinTimesOut(1)
    \/ OnEditorUpdate(1)
    \/ ThreadStep(1)
    \/ \E t \in Tids : AcceptClient(1, t)
    \/ \E c \in Conns :
          \/ PeerConnect(c, 1)
          \/ \E payload \in Payloads : PeerSend(c, payload)
          \/ HandleClientRead(1, c)
          \/ HandleClientExit(1, c)

SpecTick == InitTick /\ [][NextTick]_vars

\* The extension's client alone: commands, file changes, socket events and timers, with
\* the listener reduced to the set of ports on which something accepts.
AcceptingChoices == {{}, {CLIENT_PORTS[4]}, {CLIENT_PORTS[1], CLIENT_PORTS[4]}}

InitClient ==
    /\ host = [h \in Hosts |-> InitialHost]
    /\ mutex = [owner |-> 0, count |-> 0]
    /\ prefs = InitialPrefs
    /\ linger = {}
    /\ conn = [c \in Conns |-> NoConn]
    /\ ext = {}
    /\ osLinger = FALSE
    /\ \E accepting \in AcceptingChoices : client = InitialClient(accepting)

SocketEvent ==
    \/ SocketConnects
    \/ SocketFails
    \/ CloseEvent

NextClient ==
    \/ \E isInitialAttempt \in BOOLEAN : ConnectToUnity(isInitialAttempt)
    \/ AttemptConnectionSequence
    \/ StopConnectionSequence
    \/ CloseConnection
    \/ TriggerUnityRefresh
    \/ SocketEvent
    \/ ConnectionError
    \/ PeerCloses
    \/ ReconnectTimer

\* Socket events and timers that are due are delivered by the event loop.
SpecClient ==
    InitClient /\ [][NextClient]_vars /\ WF_vars(SocketEvent) /\ WF_vars(ReconnectTimer)

\* The listener goes away (Unity compiles or reloads its domain): nothing accepts any
\* more and an established connection is ended by the peer.
ListenerStops ==
    /\ client.accepting # {}
    /\ client.outages < MaxOutages
    /\ ClientStep([(IF client.socketClient.st = "connected" THEN Destroy(client) ELSE client)
                      EXCEPT !.accepting = {}, !.outages = @ + 1])

\* The listener is back on its port.
ListenerReturns ==
    /\ client.accepting = {}
    /\ client.outages > 0
    /\ ClientStep([client EXCEPT !.accepting = {CLIENT_PORTS[1]}])

\* The client started once by the user, with a listener that goes away and comes back;
\* after the start command only socket events and timers act on the client.
InitReconnect ==
    /\ host = [h \in Hosts |-> InitialHost]
    /\ mutex = [owner |-> 0, count |-> 0]
    /\ prefs = InitialPrefs
    /\ linger = {}
    /\ conn = [c \in Conns |-> NoConn]
    /\ ext = {}
    /\ osLinger = FALSE
    /\ client = InitialClient({CLIENT_PORTS[1]})

NextReconnect ==
    \/ client.call[1].st = "none" /\ AttemptConnectionSequence
    \/ SocketEvent
    \/ ReconnectTimer
    \/ ListenerStops
    \/ ListenerReturns

SpecReconnect ==
    InitReconnect /\ [][NextReconnect]_vars /\ WF_vars(SocketEvent) /\ WF_vars(ReconnectTimer)

\* ---- the client against the listener of editor process 1
\* The port the socket in progress was created for.
ClientPort == CLIENT_PORTS[client.socketClient.portIndex + 1]

\* The listening sockets of the listener on port p.
ListeningThreads(p) == {t \in Tids : host[1].thr[t].sock /\ host[1].thr[t].port = p}

\* The connect succeeds against the listener: the connection waits in its backlog.
LinkConnects ==
    /\ client.socketClient.st = "connecting"
    /\ conn[1].st = "none" /\ 1 \notin host[1].readers
    /\ \E t \in ListeningThreads(ClientPort) :
          conn' = [conn EXCEPT ![1] = [st |-> "pending", h |-> 1, t |-> t, stream |-> <<>>]]
    /\ client' = onConnect(client)
    /\ UNCHANGED <<host, mutex, prefs, ext, linger, osLinger>>

\* The connect succeeds against another program that listens on the port.
LinkConnectsElsewhere ==
    /\ client.socketClient.st = "connecting"
    /\ ClientPort \in ext
    /\ client' = onConnect(client)
    /\ UNCHANGED <<host, mutex, prefs, ext, linger, osLinger, conn>>

\* 'error' or 'timeout': the listener does not listen on the port (another program that
\* holds it may refuse as well).
LinkFails ==
    /\ client.socketClient.st = "connecting"
    /\ ListeningThreads(ClientPort) = {}
    /\ client' = connectionFailed(client)
    /\ UNCHANGED <<host, mutex, prefs, ext, linger, osLinger, conn>>

\* A watched file changes while the socket is connected: triggerUnityRefresh writes the
\* refresh payload, which reaches the listener when the socket is connected to it.
FileChange ==
    /\ client.socketClient.st = "connected"
    /\ client.written < MaxWrites
    /\ client' = triggerUnityRefresh(client, 0)
    /\ IF client.currentPort \notin ext /\ conn[1].st \in {"pending", "open"}
       THEN /\ Len(conn[1].stream) < MaxStream
            /\ conn' = [conn EXCEPT ![1].stream = Append(conn[1].stream, RefreshJson)]
       ELSE UNCHANGED conn
    /\ UNCHANGED <<host, mutex, prefs, ext, linger, osLinger>>

\* One editor started once and one extension started once, the default port free or
\* held by another program; ticks, threads and socket events are not held back for ever.
InitLink ==
    /\ InitCommon
    /\ ext \in {{}, {ALTERNATIVE_PORTS[1]}}
    /\ osLinger = FALSE

ListenerStep ==
    \/ \E t \in Tids : ThreadStart(1, t) \/ Bind(1, t) \/ Record(1, t)
    \/ \E t \in Tids : AcceptClient(1, t)
    \/ HandleClientRead(1, 1)

NextLink ==
    \/ ~host[1].isInitialized /\ Start(1)
    \/ ListenerStep
    \/ OnEditorUpdate(1)
    \/ client.call[1].st = "none" /\ AttemptConnectionSequence
    \/ LinkConnects
    \/ LinkConnectsElsewhere
    \/ LinkFails
    \/ CloseEvent
    \/ FileChange

SpecLink ==
    /\ InitLink /\ [][NextLink]_vars
    /\ WF_vars(ListenerStep) /\ WF_vars(OnEditorUpdate(1))

\* ---- one startup of the listener, with binds that may fail for any reason
StartupStep ==
    \E t \in Tids : ThreadStart(1, t) \/ Bind(1, t) \/ Record(1, t)

InitBind ==
    /\ InitCommon
    /\ ext \in SUBSET Ports
    /\ osLinger = FALSE

NextBind ==
    \/ host[1].lastOp = "none" /\ Start(1)
    \/ Stop(1)
    \/ JoinReturns(1)
    \/ JoinTimesOut(1)
    \/ OnEditorUpdate(1)
    \/ StartupStep
    \/ \E t \in Tids : BindError(1, t)
    \/ \E t \in Tids : LoopExit(1, t)

\* A listener thread that has been started is scheduled.
SpecBind == InitBind /\ [][NextBind]_vars /\ WF_vars(StartupStep)

\* ---- one listener and its clients, which connect, send and close
ReaderStep == \E c \in Conns : HandleClientRead(1, c) \/ HandleClientExit(1, c)

AcceptLoopStep ==
    \E t \in Tids : ThreadStart(1, t) \/ Bind(1, t) \/ Record(1, t) \/ AcceptClient(1, t)
                        \/ LoopExit(1, t)

NextPeer ==
    \/ host[1].lastOp = "none" /\ Start(1)
    \/ Stop(1)
    \/ JoinReturns(1)
    \/ JoinTimesOut(1)
    \/ OnEditorUpdate(1)
    \/ AcceptLoopStep
    \/ ReaderStep
    \/ \E c \in Conns :
          \/ PeerConnect(c, 1)
          \/ PeerSend(c, RefreshJson)
          \/ PeerClose(c)

\* The accept loop and the connection readers are scheduled, and a Join ends.
SpecPeer ==
    /\ InitTick /\ [][NextPeer]_vars
    /\ WF_vars(AcceptLoopStep) /\ WF_vars(ReaderStep)
    /\ WF_vars(JoinReturns(1) \/ JoinTimesOut(1))

\* ---- one listener with its clients under Start, Stop and Reload
InitQueue ==
    /\ InitCommon
    /\ ext = {}
    /\ osLinger = FALSE

NextQueue ==
    \/ host[1].lastOp = "none" /\ Start(1)
    \/ Stop(1)
    \/ host[1].isInitialized /\ Reload(1)
    \/ ReloadCheck(1)
    \/ JoinReturns(1)
    \/ JoinTimesOut(1)
    \/ OnEditorUpdate(1)
    \/ AcceptLoopStep
    \/ ReaderStep
    \/ PeerConnect(1, 1)
    \/ \E payload \in {RefreshJson, PingJson} : PeerSend(1, payload)

SpecQueue == InitQueue /\ [][NextQueue]_vars

\* ---- the locks of the handler, statement by statement
\* A step of a thread's program: from one place to the next, entering a lock statement
\* ("acquire"), leaving it ("release"), or doing something else outside any lock.
Tr(a, from, to, op, l) == [a |-> a, from |-> from, to |-> to, op |-> op, l |-> l]

\* A StopServer that waits for the listener thread inside lock (clientListLock).
MainProgramJoinsInsideLock ==
    {Tr("main", "idle", "tick_wait_q", "step", "-"),
     Tr("main", "tick_wait_q", "tick_in_q", "acquire", "messageQueue"),
     Tr("main", "tick_in_q", "tick_wait_a", "release", "messageQueue"),
     Tr("main", "tick_wait_a", "tick_in_a", "acquire", "mainThreadActionsLock"),
     Tr("main", "tick_in_a", "idle", "release", "mainThreadActionsLock"),
     Tr("main", "idle", "idle", "start", "-"),
     Tr("main", "idle", "stop_wait_c", "stop", "-"),
     Tr("main", "stop_wait_c", "stop_join", "acquire", "clientListLock"),
     Tr("main", "stop_join", "stop_in_c", "join", "-"),
     Tr("main", "stop_join", "stop_in_c", "abort", "-"),
     Tr("main", "stop_in_c", "idle", "release", "clientListLock"),
     Tr("main", "idle", "count_wait_c", "step", "-"),
     Tr("main", "count_wait_c", "count_in_c", "acquire", "clientListLock"),
     Tr("main", "count_in_c", "idle", "release", "clientListLock")}

\* The main thread: OnEditorUpdate (lines 493-510), Start and StartListenerThread
\* (359-371), StopServer (377-446: the flag, lock (clientListLock) around the closing of
\* the clients, then server.Stop and the Join, or the Abort after its timeout, outside
\* the lock) and GetConnectedClientCount (907-913).
MainProgram ==
    {Tr("main", "idle", "tick_wait_q", "step", "-"),
     Tr("main", "tick_wait_q", "tick_in_q", "acquire", "messageQueue"),
     Tr("main", "tick_in_q", "tick_wait_a", "release", "messageQueue"),
     Tr("main", "tick_wait_a", "tick_in_a", "acquire", "mainThreadActionsLock"),
     Tr("main", "tick_in_a", "idle", "release", "mainThreadActionsLock"),
     Tr("main", "idle", "idle", "start", "-"),
     Tr("main", "idle", "stop_wait_c", "stop", "-"),
     Tr("main", "stop_wait_c", "stop_in_c", "acquire", "clientListLock"),
     Tr("main", "stop_in_c", "stop_join", "release", "clientListLock"),
     Tr("main", "stop_join", "idle", "join", "-"),
     Tr("main", "stop_join", "idle", "abort", "-"),
     Tr("main", "idle", "count_wait_c", "step", "-"),
     Tr("main", "count_wait_c", "count_in_c", "acquire", "clientListLock"),
     Tr("main", "count_in_c", "idle", "release", "clientListLock")}

\* The listener thread after its bind: the queued EditorPrefs write (586-589),
\* isServerRunning = true (628), and RunServerLoop (640-692): an accepted client is added
\* under lock (clientListLock) and gets its reader thread, the disconnected clients are
\* removed under the same lock, and the loop ends when isServerRunning is false.
ListenerProgram ==
    {Tr("listener", "bound", "wait_a", "step", "-"),
     Tr("listener", "wait_a", "in_a", "acquire", "mainThreadActionsLock"),
     Tr("listener", "in_a", "started", "release", "mainThreadActionsLock"),
     Tr("listener", "started", "loop", "run", "-"),
     Tr("listener", "loop", "acc_wait_c", "accept", "-"),
     Tr("listener", "acc_wait_c", "acc_in_c", "acquire", "clientListLock"),
     Tr("listener", "acc_in_c", "accepted", "release", "clientListLock"),
     Tr("listener", "accepted", "clean_wait_c", "spawn", "-"),
     Tr("listener", "loop", "clean_wait_c", "ifrunning", "-"),
     Tr("listener", "clean_wait_c", "clean_in_c", "acquire", "clientListLock"),
     Tr("listener", "clean_in_c", "loop", "release", "clientListLock"),
     Tr("listener", "loop", "ended", "ifstopped", "-")}

\* A connection reader, HandleClient: a payload is enqueued under lock (messageQueue)
\* (756-759); when the loop is over the finally block removes the client under
\* lock (clientListLock) (784-787).
ReaderProgram ==
    {Tr("reader", "poll", "wait_q", "ifrunning", "-"),
     Tr("reader", "wait_q", "in_q", "acquire", "messageQueue"),
     Tr("reader", "in_q", "poll", "release", "messageQueue"),
     Tr("reader", "poll", "fin_wait_c", "ifstopped", "-"),
     Tr("reader", "fin_wait_c", "fin_in_c", "acquire", "clientListLock"),
     Tr("reader", "fin_in_c", "ended", "release", "clientListLock")}

NotStarted(k, a) == k.pc[a] \in {"none", "ended"}

\* Thread.Abort: the finally of every lock statement the thread is in releases its
\* monitor, and the thread ends.
Aborted(k, a) ==
    [k EXCEPT !.owner = [l \in Locks |-> IF k.owner[l] = a THEN "none" ELSE k.owner[l]],
              !.pc[a] = "ended"]

\* The step tr taken from the lock state k: whether it can be taken, and what follows.
CanTake(k, tr) ==
    /\ k.pc[tr.a] = tr.from
    /\ CASE tr.op = "acquire" -> k.owner[tr.l] = "none"
         [] tr.op = "release" -> k.owner[tr.l] = tr.a
         [] tr.op = "start" -> NotStarted(k, "listener")
         [] tr.op = "join" -> NotStarted(k, "listener")
         [] tr.op = "abort" -> ~NotStarted(k, "listener")
         [] tr.op = "accept" -> k.running /\ NotStarted(k, "reader")
         [] tr.op = "ifrunning" -> k.running
         [] tr.op = "ifstopped" -> ~k.running
         [] OTHER -> TRUE

Taken(k, tr) ==
    LET k1 == [k EXCEPT !.pc[tr.a] = tr.to]
    IN CASE tr.op = "acquire" -> [k1 EXCEPT !.owner[tr.l] = tr.a]
         [] tr.op = "release" -> [k1 EXCEPT !.owner[tr.l] = "none"]
         [] tr.op = "start" -> [k1 EXCEPT !.pc["listener"] = "bound"]
         [] tr.op = "stop" -> [k1 EXCEPT !.running = FALSE]
         [] tr.op = "abort" -> Aborted(k1, "listener")
         [] tr.op = "run" -> [k1 EXCEPT !.running = TRUE]
         [] tr.op = "spawn" -> [k1 EXCEPT !.pc["reader"] = "poll"]
         [] OTHER -> k1

Take(tr) ==
    /\ CanTake(host[1].lk, tr)
    /\ host' = [host EXCEPT ![1].lk = Taken(host[1].lk, tr)]
    /\ UNCHANGED <<mutex, prefs, ext, linger, osLinger, conn, client>>

MainLockStep == \E tr \in MainProgram : Take(tr)
ListenerLockStep == \E tr \in ListenerProgram : Take(tr)
ReaderLockStep == \E tr \in ReaderProgram : Take(tr)

InitLocks ==
    /\ InitCommon
    /\ ext = {}
    /\ osLinger = FALSE

NextLocks ==
    \/ MainLockStep
    \/ ListenerLockStep
    \/ ReaderLockStep

SpecLocks == InitLocks /\ [][NextLocks]_vars

\* ==================================================================== claims
Running(h) ==
    /\ host[h].isServerRunning
    /\ \E t \in Tids : host[h].thr[t].pc = "loop" /\ host[h].thr[t].sock

\* C4: whenever a listener is running in a host process, that process holds the named
\* lock (also after the automatic restart that follows a domain reload).  The moments
\* at which a handler of the process is still under way are left out.
C4_RunningHoldsLock ==
    \A h \in Hosts : (Running(h) /\ host[h].mainPc = "idle") => mutex.owner = h

\* C5: after Stop, OnBeforeAssemblyReload or OnEditorQuitting has completed, the host
\* process no longer holds the named lock, whatever calls came before.
C5_ExitReleasesLock ==
    \A h \in Hosts :
        (/\ host[h].lastOp \in {"Stop", "OnBeforeAssemblyReload", "OnEditorQuitting"}
         /\ host[h].mainPc = "idle")
        => mutex.owner # h

\* What one step does to listener thread t of process 1, for C6: a general thread that
\* binds takes its candidate, which no other program and no socket of the process
\* holds, while every earlier candidate of its try order is held; the step that
\* follows records the port as current and last-successful.
C6_Step(t) ==
    LET th == host[1].thr[t]
        th2 == host'[1].thr[t]
        port == th.ports[th.idx]
        Held(p) == p \in ext \/ Bound(World, p)
    IN /\ (th.pc = "bind" /\ th.kind = "general" /\ th2.pc = "rec") =>
             /\ th2.port = port /\ th2.sock
             /\ host'[1].currentPort = port
             /\ ~Held(port)
             /\ \A j \in 1..(th.idx - 1) : Held(th.ports[j])
             /\ (ext = {ALTERNATIVE_PORTS[1], ALTERNATIVE_PORTS[2]}
                   /\ th.ports = ALTERNATIVE_PORTS) => port = ALTERNATIVE_PORTS[3]
       /\ (th.pc = "rec" /\ th2.pc = "loop") =>
             /\ host'[1].currentPort = th.port
             /\ host'[1].lastSuccessfulPort = th.port
             /\ host'[1].isServerRunning

\* C6: listener startup binds the first port of its try order that is free and records
\* it as both current and last-successful; with the first 2 of the 5 candidates held by
\* another program it succeeds on the 3rd.
C6_BindsFirstFree == [][\A t \in Tids : C6_Step(t)]_vars

C6_Witness ==
    /\ ext = {ALTERNATIVE_PORTS[1], ALTERNATIVE_PORTS[2]}
    /\ host[1].isServerRunning
    /\ host[1].currentPort = ALTERNATIVE_PORTS[3]
    /\ host[1].lastSuccessfulPort = ALTERNATIVE_PORTS[3]
    /\ \E t \in Tids : /\ host[1].thr[t].pc = "loop"
                        /\ host[1].thr[t].sock
                        /\ host[1].thr[t].port = ALTERNATIVE_PORTS[3]

\* The general thread t of process 1 is at its last attempt on its last candidate.
AtLastAttempt(t) ==
    LET th == host[1].thr[t]
    IN th.pc = "bind" /\ th.kind = "general" /\ th.idx = Len(th.ports)
       /\ th.attempt + 1 >= th.max

\* C7: when all 5 candidate ports are occupied, startup fails cleanly: isServerRunning
\* stays false, GetCurrentPort reports -1, no thread reaches the server loop, and the
\* thread that fails on its last candidate ends without touching the main thread.
C7_AllOccupiedFailsCleanly ==
    [][ext = Ports =>
         /\ ~host'[1].isServerRunning
         /\ GetCurrentPort(1)' = -1
         /\ \A t \in Tids :
               /\ host'[1].thr[t].pc \notin {"rec", "loop"}
               /\ (AtLastAttempt(t) /\ host'[1].thr[t] # host[1].thr[t]
                      /\ host'[1].mainPc = host[1].mainPc /\ host'[1].lastOp = host[1].lastOp)
                   => /\ ~Alive(host'[1].thr[t])
                      /\ host'[1].phase = host[1].phase
                      /\ host'[1].isInitialized = host[1].isInitialized]_vars

C7_Witness ==
    /\ ext = Ports
    /\ host[1].lastOp = "Start"
    /\ host[1].isInitialized
    /\ host[1].mainPc = "idle"
    /\ host[1].listenerThread = ENDED
    /\ \A t \in Tids : ~Alive(host[1].thr[t])
    /\ GetCurrentPort(1) = -1

\* The alternative ports other than a and b, in their fixed order.
RemainingPorts(a, b) == SelectSeq(ALTERNATIVE_PORTS, LAMBDA p : p # a /\ p # b)

\* C8 as the code has it: the thread's try order is the port recorded as current, then
\* the last successful port, then the remaining candidates in their fixed list order,
\* each port once.
C8_CurrentThenLast ==
    [][\A t \in Tids :
          (host[1].thr[t].pc = "start" /\ host'[1].thr[t].pc = "bind") =>
              LET cur == host[1].currentPort
                  last == host[1].lastSuccessfulPort
                  ps == host'[1].thr[t].ports
              IN /\ ps = (IF last # cur THEN <<cur, last>> ELSE <<cur>>)
                            \o RemainingPorts(cur, last)
                 /\ \A i, j \in 1..Len(ps) : i # j => ps[i] # ps[j]]_vars

\* C8 as stated: the try order is the last successful port, then the port recorded as
\* current, then the remaining candidates in their fixed list order.
C8_LastThenCurrent ==
    [][\A t \in Tids :
          (host[1].thr[t].pc = "start" /\ host'[1].thr[t].pc = "bind") =>
              LET cur == host[1].currentPort
                  last == host[1].lastSuccessfulPort
                  ps == host'[1].thr[t].ports
              IN ps = (IF last # cur THEN <<last, cur>> ELSE <<last>>)
                         \o RemainingPorts(cur, last)]_vars

C8_Witness ==
    \E t \in Tids :
        LET th == host[1].thr[t]
        IN /\ th.pc = "bind" /\ th.kind = "general"
           /\ host[1].currentPort # host[1].lastSuccessfulPort
           /\ th.ports[1] = host[1].currentPort
           /\ th.ports[2] = host[1].lastSuccessfulPort

\* Stop(1) has changed nothing but the model's note of the last call.
StopIsNoOp ==
    /\ host' = [host EXCEPT ![1].lastOp = "Stop"]
    /\ UNCHANGED <<mutex, prefs, ext, linger, osLinger, conn, client>>

C1_OneRefreshPerTick ==
    [][OnEditorUpdate(1) =>
          LET queue == host[1].messageQueue
              asked == \E i \in 1..Len(queue) : ProcessMessage(FALSE, queue[i])
          IN /\ ~host[1].shouldRequestRefresh
             /\ host'[1].lastTick.n = Len(queue)
             /\ host'[1].lastTick.refreshes = (IF asked THEN 1 ELSE 0)
             /\ host'[1].messageQueue = <<>>]_vars

C1_Witness ==
    /\ host[1].lastTick.n >= 2
    /\ host[1].lastTick.refreshes = 1
    /\ host[1].messageQueue = <<>>

\* A structured payload whose command is ping.
IsRecognizedPing(message) ==
    /\ Contains(message, "{") /\ Contains(message, "}")
    /\ Contains(message, "\"command\"")
    /\ Contains(message, "\"ping\"")

\* C2: a payload sets the refresh-pending flag if and only if it is not a recognized
\* ping, so that the tick which processes one payload invokes RefreshAssets exactly
\* when that payload is not a recognized ping.
C2_RefreshUnlessPing ==
    [][(OnEditorUpdate(1) /\ Len(host[1].messageQueue) = 1) =>
          (host'[1].lastTick.refreshes = 1 <=> ~IsRecognizedPing(host[1].messageQueue[1]))]_vars

\* C3: the two host processes never both run a listener at the same time.
C3_AtMostOneListener == Cardinality({h \in Hosts : Running(h)}) <= 1

\* Process h has finished a reload that began with the listener running, its threads
\* have settled, and a bind attempt of the reload found the port free of other holders.
ReloadSettled(h) ==
    /\ host[h].lastOp = "Reload"
    /\ host[h].reloads > 0
    /\ host[h].wasListening
    /\ host[h].sawFree
    /\ host[h].mainPc = "idle"
    /\ \A t \in Tids :
          /\ host[h].thr[t].pc \notin {"start", "bind", "rec"}
          /\ host[h].thr[t].pc = "loop" => (host[h].isServerRunning /\ host[h].server \in Tids)

\* C9: after a successful start on port P, a Reload during which P is free within the
\* retry window ends with the listener listening on P again.
C9_ReloadKeepsPort ==
    ReloadSettled(1) =>
        /\ host[1].isServerRunning
        /\ host[1].currentPort = host[1].portToReuse
        /\ \E t \in Tids : /\ host[1].thr[t].pc = "loop" /\ host[1].thr[t].sock
                            /\ host[1].thr[t].port = host[1].portToReuse

\* C11: a Start that directly follows a Start which went through leaves the listener
\* as that first Start left it: ownership count of the named lock, listener thread,
\* running flag and bound port are unchanged, at whatever point of the first start's
\* bind the second call arrives.
C11_StartTwiceIsStartOnce ==
    [][(Start(1) /\ host[1].lastOp = "Start" /\ host[1].isInitialized) =>
          /\ mutex' = mutex
          /\ host'[1].listenerThread = host[1].listenerThread
          /\ host'[1].thr = host[1].thr
          /\ host'[1].mainPc = "idle"
          /\ host'[1].isServerRunning = host[1].isServerRunning
          /\ host'[1].currentPort = host[1].currentPort]_vars

\* Start(h) is called while another process holds the named lock and the handler of h
\* is not already running.
StartWhileLockedElsewhere(h) ==
    /\ Start(h)
    /\ mutex.owner \notin {0, h}
    /\ ~(host[h].isInitialized /\ host[h].isServerRunning)

\* C12: if the named lock is held but no socket is listening on the recorded port, a
\* Start call goes through: the handler is initialized and a listener thread is started
\* (after the previous thread, if one is still alive, has been stopped).
C12_StaleLockStartSucceeds ==
    [][\A h \in Hosts :
          (StartWhileLockedElsewhere(h) /\ ~IsPortInUse(World, host[h].currentPort)) =>
              \/ host'[h].mainPc = "join" /\ host'[h].cont = "Start"
              \/ /\ host'[h].isInitialized
                 /\ prefs'.wasRunning
                 /\ host'[h].listenerThread \in Tids
                 /\ host'[h].thr[host'[h].listenerThread].pc = "start"]_vars

C12_Witness ==
    \E h \in Hosts :
        /\ host[h].lastOp = "Start"
        /\ host[h].isInitialized
        /\ ~host[h].instanceMutex
        /\ mutex.owner \notin {0, h}
        /\ host[h].listenerThread \in Tids

\* C13: if Start cannot acquire the named lock and the recorded port is in use, Start
\* skips: no thread is started, isInitialized, isServerRunning and every other static
\* are as before, the persisted flag and the lock are unchanged, and no lock handle is
\* kept.
C13_SkipLeavesStateAlone ==
    [][\A h \in Hosts :
          (StartWhileLockedElsewhere(h) /\ IsPortInUse(World, host[h].currentPort)) =>
              /\ host' = [host EXCEPT ![h].lastOp = "Start", ![h].instanceMutex = FALSE]
              /\ ~host[h].isInitialized => ~host'[h].isInitialized
              /\ ~host'[h].isServerRunning
              /\ UNCHANGED <<mutex, prefs, ext, linger, osLinger, conn, client>>]_vars

C13_Witness ==
    \E h \in Hosts :
        /\ host[h].lastOp = "Start"
        /\ ~host[h].isInitialized
        /\ ~host[h].isServerRunning
        /\ ~host[h].instanceMutex
        /\ mutex.owner \notin {0, h}
        /\ \A t \in Tids : host[h].thr[t].pc = "free"
        /\ IsPortInUse(World, host[h].currentPort)

\* C14: the listener is stopped when a teardown begins, and the delayed call of the new
\* domain starts it again if and only if it had been started and not explicitly
\* stopped before the teardown, across any number of domain reloads (no command is
\* called between the load of the new domain and its delayed call).
C14_RestartIffStarted ==
    [][/\ (host[1].phase = "loaded" /\ host'[1].phase = "unloaded") =>
             /\ ~host'[1].isServerRunning
             /\ \A t \in Tids : ~Alive(host'[1].thr[t])
       /\ (DelayCall(1) /\ host[1].lastOp = "none") =>
             (host'[1].lastOp = "StartWithoutMutex" <=> host[1].startedBeforeReload)]_vars


\* ---- the socket client
ResolvesNow(k) ==
    /\ client.call[k].st = "pending"
    /\ client'.call[k].st = "resolved"

\* C15: a connect sequence tries the candidate ports in list order from the first, goes
\* on to the next one when a candidate fails, and resolves to the first candidate that
\* accepts with no later candidate tried; when only the 4th candidate accepts, the call
\* resolves to the 4th port after the first three failed.
C15_FirstAcceptingInOrder ==
    [][\A k \in Calls :
          (ResolvesNow(k) /\ client'.call[k].value # NULL) =>
              LET s == client'.socketClient
                  n == Len(s.tried)
              IN /\ s.st = "connected" /\ s.call = k
                 /\ s.tried = SubSeq(CLIENT_PORTS, 1, n)
                 /\ client'.call[k].value = CLIENT_PORTS[n]
                 /\ client'.currentPort = CLIENT_PORTS[n]
                 /\ CLIENT_PORTS[n] \in client.accepting
                 /\ \A i \in 1..(n - 1) : CLIENT_PORTS[i] \notin client.accepting
                 /\ client.accepting = {CLIENT_PORTS[4]} => n = 4]_vars

C15_Witness ==
    /\ client.accepting = {CLIENT_PORTS[4]}
    /\ \E k \in Calls :
          /\ client.call[k].isInitialAttempt
          /\ client.call[k].st = "resolved"
          /\ client.call[k].value = CLIENT_PORTS[4]
          /\ client.socketClient.st = "connected"
          /\ client.socketClient.call = k
          /\ client.socketClient.tried = SubSeq(CLIENT_PORTS, 1, 4)

\* The socket in progress is at the last candidate, and its failure is handled.
LastCandidateFails(k) ==
    /\ client.socketClient.call = k
    /\ client.socketClient.portIndex + 1 = Len(CLIENT_PORTS)
    /\ SocketFails \/ ConnectionError

\* C16: when every candidate of a connect call has failed the call resolves to null, and
\* the error notification is shown once if the call was explicit and not at all if it was
\* automatic; the notification is shown at no other moment.
C16_ExhaustionResolvesNull ==
    [][/\ \A k \in Calls :
             (LastCandidateFails(k) /\ client.call[k].st = "pending") =>
                 /\ client'.call[k].st = "resolved"
                 /\ client'.call[k].value = NULL
                 /\ client.socketClient.tried = CLIENT_PORTS
                 /\ client'.errorsShown =
                        client.errorsShown + (IF client.call[k].isInitialAttempt THEN 1 ELSE 0)
       /\ client'.errorsShown # client.errorsShown =>
             /\ client'.errorsShown = client.errorsShown + 1
             /\ \E k \in Calls : LastCandidateFails(k) /\ client.call[k].isInitialAttempt]_vars

C16_Witness ==
    /\ client.accepting = {}
    /\ client.errorsShown = 1
    /\ \E k, j \in Calls :
          /\ client.call[k].isInitialAttempt /\ client.call[k].st = "resolved"
          /\ client.call[k].value = NULL
          /\ ~client.call[j].isInitialAttempt /\ client.call[j].st = "resolved"
          /\ client.call[j].origin = "timer"
          /\ client.call[j].value = NULL

\* A connect sequence is in flight: its socket is connecting and its call is pending.
InFlight ==
    /\ client.socketClient.st = "connecting"
    /\ client.call[client.socketClient.call].st = "pending"

\* C17: an automatic connectToUnity that arrives while a sequence is in flight, at
\* whatever point of it, starts no sequence of its own and creates no socket: the socket
\* in progress and the flag stay as they are, and the new call resolves to null at once.
C17_AutomaticNeverPreempts ==
    [][(InFlight /\ ConnectToUnity(FALSE)) =>
          /\ client'.socketClient = client.socketClient
          /\ client'.call[NewCall(client)].st = "resolved"
          /\ client'.call[NewCall(client)].value = NULL]_vars

\* C18: isConnecting is true only while a connect sequence is under way, that is between
\* the start of a connect call and the success, exhaustion or cancellation of its sequence.
C18_ConnectingOnlyInFlight ==
    /\ [](client.isConnecting => InFlight)
    /\ [][(\/ SocketConnects
           \/ CloseConnection
           \/ StopConnectionSequence
           \/ \E k \in Calls : LastCandidateFails(k)) => ~client'.isConnecting]_vars

C18_Witness ==
    /\ client.isConnecting
    /\ InFlight
    /\ client.socketClient.portIndex > 0

\* C19: every connectToUnity call reaches a terminal outcome: its promise is eventually
\* resolved, with a port or with null, also when an explicit call preempts its sequence
\* or closeConnection cancels it.
C19_EveryCallResolves ==
    \A k \in Calls : (client.call[k].st = "pending") ~> (client.call[k].st = "resolved")

\* C20: triggerUnityRefresh without a live connection starts an automatic connect of its
\* own and writes nothing yet; when that connect succeeds exactly one payload is written
\* for the call and (port, connected) is reported, when it fails nothing is written and
\* (none, disconnected) is reported.
C20_ConnectThenSend ==
    /\ [](\A k \in Calls :
             client.call[k].origin = "trigger" =>
                 client.call[k].writes =
                     (IF client.call[k].st = "resolved" /\ client.call[k].value # NULL
                      THEN 1 ELSE 0))
    /\ [][/\ (TriggerUnityRefresh /\ ~SocketLive(client.socketClient)) =>
                LET k == NewCall(client)
                IN /\ client'.call[k].origin = "trigger"
                   /\ ~client'.call[k].isInitialAttempt
                   /\ client'.call[k].st = "pending"
                   /\ client'.socketClient.st = "connecting"
                   /\ client'.socketClient.call = k
                   /\ client'.socketClient.portIndex = 0
                   /\ client'.written = client.written
          /\ \A k \in Calls :
                (ResolvesNow(k) /\ client.call[k].origin = "trigger") =>
                    IF client'.call[k].value # NULL
                    THEN /\ client'.written = Bump(client.written, MaxWrites)
                         /\ client'.connectedPort = client'.call[k].value
                         /\ client'.hotReloadActive
                         /\ client'.socketClient.st = "connected"
                    ELSE /\ client'.written = client.written
                         /\ client'.connectedPort = NULL
                         /\ ~client'.hotReloadActive]_vars

C20_Witness ==
    \E k \in Calls :
        /\ client.call[k].origin = "trigger" /\ client.call[k].st = "resolved"
        /\ client.call[k].value = CLIENT_PORTS[4] /\ client.call[k].writes = 1
        /\ client.connectedPort = client.call[k].value /\ client.hotReloadActive
        /\ client.socketClient.st = "connected" /\ client.socketClient.call = k

\* C21: the 'close' of a client socket schedules a reconnect, and the timer starts a
\* connect sequence only if the is-needed predicate (hotReloadActive) holds when it
\* fires: with the feature switched off by then it starts nothing, whatever the value
\* was when the timer was armed.
C21_ReconnectChecksNeedAtFiring ==
    [][/\ CloseEvent => client'.timers = Bump(client.timers, MaxTimers)
       /\ ReconnectTimer =>
             IF client.hotReloadActive /\ ~SocketLive(client.socketClient)
             THEN /\ client'.call[NewCall(client)].origin = "timer"
                  /\ ~client'.call[NewCall(client)].isInitialAttempt
             ELSE /\ client'.call = client.call
                  /\ client'.socketClient = client.socketClient
                  /\ client'.isConnecting = client.isConnecting]_vars

\* The feature was on when the socket closed and is off now with the timer still armed.
C21_Witness ==
    /\ client.timers > 0
    /\ ~client.hotReloadActive
    /\ ~SocketLive(client.socketClient)
    /\ client.closing = 0
    /\ \E k \in Calls : client.call[k].origin = "command" /\ client.call[k].st = "pending"

ExplicitStop == CloseConnection \/ StopConnectionSequence

\* C22: closeConnection destroys the live socket at once and leaves no socket that is
\* not destroyed, and the sequence that was in flight tries no further candidate: from then
\* on a socket appears only with a new connectToUnity call.
C22_StopEndsSequence ==
    [][/\ ExplicitStop =>
             /\ client'.socketClient = NoSocket
             /\ ~client'.isConnecting
             /\ client'.call = client.call
             /\ SocketLive(client.socketClient) =>
                    client'.closing = Bump(client.closing, MaxClosing)
       /\ (~SocketLive(client.socketClient) /\ SocketLive(client'.socketClient)) =>
             /\ client.call[client'.socketClient.call].st = "none"
             /\ client'.socketClient.portIndex = 0]_vars

C22_Witness ==
    /\ client.socketClient = NoSocket
    /\ client.closing > 0
    /\ \E k \in Calls : client.call[k].st = "pending" /\ client.call[k].origin = "api"

\* C23: an explicit stop clears the client's memory of the current port: after it the
\* client holds no port it was connected to before, only the default it starts with.
C23_StopClearsCurrentPort ==
    [][ExplicitStop => client'.currentPort = DEFAULT_UNITY_HOT_RELOAD_PORT]_vars

\* The feature was switched on by the start command and connected, the listener went
\* away and is back for good.
ListenerBackForGood ==
    /\ client.call[1].st = "resolved" /\ client.call[1].value # NULL
    /\ client.outages = MaxOutages
    /\ client.accepting # {}

\* C24: a lost connection is temporary: once the listener is reachable again and stays so,
\* the client, never stopped by the user, is connected again after some time through its
\* reconnect timer alone (or the model has run out of call slots).
C24_EventuallyReconnects ==
    ListenerBackForGood ~> (client.socketClient.st = "connected" \/ FreeCalls(client) = {})

\* ---- the client and the listener together
\* C26: the client finds the port of the listener: whenever it has reported a connection
\* on port p and the listener of the editor is running, the listener is listening on p.
C26_ConnectedPortIsListeners ==
    (Running(1) /\ client.connectedPort # NULL) =>
        /\ ListeningThreads(client.connectedPort) # {}
        /\ client.connectedPort = host[1].currentPort

\* The refresh payload of a file change is on its way on the connection to the running
\* listener.
RefreshOnItsWay ==
    /\ client.socketClient.st = "connected"
    /\ conn[1].st \in {"pending", "open"}
    /\ conn[1].stream # <<>>
    /\ host[1].thr[conn[1].t].sock

\* C25: a file change while the client is connected to the running listener leads to an
\* invocation of the refresh executor, as long as ticks keep coming and the listener
\* threads keep running: from a state whose last tick did not refresh, a tick that
\* invokes the refresh executor follows.
C25_FileChangeRefreshes ==
    (RefreshOnItsWay /\ host[1].lastTick.refreshes = 0) ~> (host[1].lastTick.refreshes = 1)

C25_Witness ==
    /\ client.written > 0
    /\ client.connectedPort = host[1].currentPort
    /\ conn[1].st = "open" /\ conn[1].stream = <<>>
    /\ host[1].lastTick.refreshes = 1
    /\ host[1].messageQueue = <<>>

\* ---- the listener, continued
\* C27: isServerRunning is true only while a listening socket of the process is open and
\* bound to currentPort, and currentPort is then one of the candidate ports.
C27_RunningMeansListening ==
    host[1].isServerRunning =>
        /\ \E t \in Tids : host[1].thr[t].sock /\ host[1].thr[t].port = host[1].currentPort
        /\ host[1].currentPort \in Ports

\* C28: an exception of the refresh is caught inside RefreshAssets: it does not leave the
\* tick, the listener keeps its running flag, socket, threads and clients, and a refresh
\* message that is in the queue at a later tick is answered by a refresh as before.
C28_RefreshFailureIsContained ==
    [][/\ (OnEditorUpdate(1) /\ host'[1].lastTick.failed) =>
             /\ ~host'[1].lastTick.escaped
             /\ host'[1].lastTick.refreshes = 1
             /\ host'[1].phase = host[1].phase
             /\ host'[1].isInitialized = host[1].isInitialized
             /\ host'[1].isServerRunning = host[1].isServerRunning
             /\ host'[1].server = host[1].server
             /\ host'[1].listenerThread = host[1].listenerThread
             /\ host'[1].thr = host[1].thr
             /\ host'[1].connectedClients = host[1].connectedClients
             /\ host'[1].readers = host[1].readers
       /\ (/\ OnEditorUpdate(1)
           /\ host[1].lastTick.failed
           /\ \E i \in 1..Len(host[1].messageQueue) : host[1].messageQueue[i] = RefreshJson) =>
             host'[1].lastTick.refreshes = 1]_vars

C28_Witness ==
    /\ host[1].lastTick.failed
    /\ Running(1)
    /\ host[1].messageQueue # <<>>
    /\ host[1].messageQueue[1] = RefreshJson

\* The handlers Unity calls on the main thread of the editor, with the continuations of
\* those that wait in a Join.
MainThreadStep ==
    \/ Start(1) \/ Stop(1) \/ JoinReturns(1) \/ JoinTimesOut(1)
    \/ OnBeforeAssemblyReload(1) \/ DelayCall(1) \/ OnEditorQuitting(1)
    \/ OnEditorUpdate(1) \/ ToggleDebugLogs(1)

\* C29: every write to EditorPrefs (last port, was-running flag, debug flag) is made by a
\* handler of the main thread; a listener thread that has bound its port only queues a
\* main-thread action, and the port is written by the tick that drains the queue.
C29_PrefsWrittenOnMainThread ==
    [][/\ prefs' # prefs => MainThreadStep
       /\ \A t \in Tids : (host[1].thr[t].pc # host'[1].thr[t].pc /\ ThreadStep(1)) =>
             prefs' = prefs
       /\ (\E t \in Tids : host[1].thr[t].pc = "rec" /\ host'[1].thr[t].pc = "loop") =>
             /\ host'[1].mainThreadActions = host[1].mainThreadActions + 1
             /\ prefs' = prefs
       /\ prefs'.lastPort # prefs.lastPort =>
             /\ OnEditorUpdate(1)
             /\ host[1].mainThreadActions > 0
             /\ prefs'.lastPort = host[1].lastSuccessfulPort]_vars

C29_Witness ==
    /\ prefs.lastPort = ALTERNATIVE_PORTS[2]
    /\ prefs.debug
    /\ prefs.wasRunning
    /\ host[1].mainThreadActions = 0

\* Stop has returned and no other command has been called since.
StopReturned ==
    /\ host[1].phase = "loaded"
    /\ host[1].lastOp = "Stop"
    /\ host[1].mainPc = "idle"

\* C30: once Stop has returned, and until the next Start or Reload, the listener is
\* stopped for good: isServerRunning is false, no listening socket of the process is
\* open, no client is tracked and no listener thread is alive.
C30_StoppedAfterStop ==
    StopReturned =>
        /\ ~host[1].isServerRunning
        /\ \A t \in Tids : ~host[1].thr[t].sock /\ ~Alive(host[1].thr[t])
        /\ host[1].connectedClients = {}

\* C31: several clients at once are tolerated.  Whatever connections are open and being
\* read, the accept loop of the running listener can accept a connection that waits on
\* its socket, and the reader of every open connection can pass what has arrived to the
\* pending-message queue (while the queue of the model has room).
C31_ClientsAreIndependent ==
    LET s == host[1] IN
    /\ \A t \in Tids :
          (/\ s.thr[t].pc = "loop" /\ s.isServerRunning /\ s.server \in Tids
           /\ \E c \in Conns : conn[c].st = "pending" /\ conn[c].h = 1 /\ conn[c].t = s.server)
          => ENABLED AcceptClient(1, t)
    /\ \A c \in Conns :
          (/\ c \in s.readers /\ conn[c].st = "open" /\ conn[c].h = 1 /\ s.isServerRunning
           /\ conn[c].stream # <<>> /\ Len(s.messageQueue) < MaxQueue)
          => ENABLED HandleClientRead(1, c)

\* One connection is open with a payload waiting to be read, a second one has been
\* accepted beside it, and a payload has reached the queue.
C31_Witness ==
    /\ conn[1].st = "open" /\ conn[2].st = "open"
    /\ host[1].readers = {1, 2}
    /\ host[1].connectedClients = {1, 2}
    /\ conn[1].stream # <<>>
    /\ Len(host[1].messageQueue) = 1

\* C32: a listener startup ends not-running only after a bind has been attempted on
\* every candidate port: a general listener thread that ends at a failed bind, whatever
\* the error, is at the last candidate of its try order.
C32_EveryCandidateTried ==
    [][\A t \in Tids :
          LET th == host[1].thr[t]
          IN (/\ th.pc = "bind" /\ th.kind = "general"
              /\ Bind(1, t) \/ BindError(1, t)
              /\ ~Alive(host'[1].thr[t]))
             => th.idx = Len(th.ports)]_vars

\* Thread t of process 1 is in its startup: it has not yet reached the server loop.
InStartup(t) == host[1].thr[t].pc \in {"start", "bind", "rec"}

\* C33: during one startup a candidate port is bind-attempted at most PORT_RETRY_ATTEMPTS
\* (5) times before the next candidate is tried, and the startup terminates: the thread
\* reaches the server loop, or ends with the failure reported.
C33_StartupTerminates ==
    /\ [](\A t \in Tids :
             host[1].thr[t].pc = "bind" =>
                 /\ host[1].thr[t].attempt < host[1].thr[t].max
                 /\ host[1].thr[t].max <= PORT_RETRY_ATTEMPTS)
    /\ \A t \in Tids : InStartup(t) ~> ~InStartup(t)

\* The preferred port is held by another program: the thread is at its fifth attempt on
\* it, with further candidates still to try.
C33_Witness ==
    \E t \in Tids :
        LET th == host[1].thr[t]
        IN /\ th.pc = "bind" /\ th.kind = "general"
           /\ th.attempt = PORT_RETRY_ATTEMPTS - 1
           /\ th.idx < Len(th.ports)
           /\ th.ports[th.idx] \in ext

\* A general listener thread (the full candidate search) is started in this step.
GeneralThreadStarted ==
    \E t \in Tids : host'[1].thr[t].pc = "start" /\ host[1].thr[t].pc # "start"

\* C34: Reload on an initialized listener tries to rebind the previous port at most
\* PORT_RETRY_ATTEMPTS (5) times, an attempt having failed when TryStartOnSpecificPort
\* returns false; the full candidate search starts only after the fifth has failed; and
\* from the call of Reload to its return the named lock is neither released nor acquired.
C34_ReloadRetriesThenFallsBack ==
    [][LET s == host[1]
           InReload == s.lastOp = "Reload" /\ s.reloads > 0 /\ s.mainPc # "idle"
           LastFailed == /\ s.mainPc = "reload_wait" /\ ~s.isServerRunning
                         /\ s.attempt = PORT_RETRY_ATTEMPTS - 1
       IN /\ s.mainPc = "reload_wait" => s.attempt < PORT_RETRY_ATTEMPTS
          /\ (s.mainPc = "reload_wait" /\ host'[1].mainPc # "reload_wait")
                => (s.isServerRunning /\ host'[1].thr = s.thr) \/ LastFailed
          /\ (s.mainPc = "reload_wait" /\ host'[1].attempt # s.attempt)
                => ~s.isServerRunning /\ host'[1].attempt = s.attempt + 1
          /\ host'[1].cont = "ReloadFallback" /\ s.cont # "ReloadFallback" => LastFailed
          /\ (InReload /\ GeneralThreadStarted)
                => LastFailed \/ (s.mainPc = "join" /\ s.cont = "ReloadFallback")
          /\ (InReload \/ (Reload(1) /\ s.isInitialized))
                => mutex' = mutex /\ host'[1].instanceMutex = s.instanceMutex]_vars

\* Reload has fallen back to the full candidate search after five failed attempts.
C34_Witness ==
    /\ host[1].lastOp = "Reload" /\ host[1].reloads = 1
    /\ host[1].mainPc = "idle"
    /\ host[1].attempt = PORT_RETRY_ATTEMPTS - 1
    /\ \E t \in Tids : host[1].thr[t].kind = "general" /\ host[1].thr[t].pc = "bind"
    /\ mutex.owner = 1

C36_ClosedPeerIsUntracked ==
    \A c \in Conns :
        (conn[c].st = "peerclosed")
            ~> (c \notin host[1].connectedClients /\ c \notin host[1].readers)

\* The listener threads of process h that are alive.
AliveThreads(h) == {t \in Tids : Alive(host[h].thr[t])}

\* C37: at any time at most one listener thread created by the handler is alive in the
\* host process, across Start, Stop, Reload and the restart after a domain reload.
C37_OneListenerThread == Cardinality(AliveThreads(1)) <= 1

IsPrefix(a, b) == Len(a) <= Len(b) /\ SubSeq(b, 1, Len(a)) = a

\* C38: every payload a connection reader has enqueued is dequeued and processed exactly
\* once, by the next tick and in enqueue order.  A tick takes the whole queue, in its
\* order, and leaves it empty; every other step (a reader, Stop, Reload, StopServer and
\* what follows their Join) leaves what is queued in place and at most appends to it.
C38_QueuedPayloadsSurvive ==
    [][LET q == host[1].messageQueue
       IN IF OnEditorUpdate(1)
          THEN /\ host'[1].messageQueue = <<>>
               /\ host'[1].lastTick.n = Len(q)
               /\ host'[1].lastTick.refreshes =
                     (IF host[1].shouldRequestRefresh
                         \/ \E i \in 1..Len(q) : ProcessMessage(FALSE, q[i])
                      THEN 1 ELSE 0)
          ELSE IsPrefix(q, host'[1].messageQueue)]_vars

\* Stop has completed (the listener is stopped and the handler not initialized) with two
\* payloads still queued, in the order in which they arrived.
C38_Witness ==
    /\ host[1].lastOp = "Stop" /\ host[1].mainPc = "idle"
    /\ ~host[1].isInitialized /\ ~host[1].isServerRunning
    /\ host[1].messageQueue = <<RefreshJson, PingJson>>

\* C39: the client never has more than one socket that is not destroyed: a new socket
\* is created only after the previous one has been destroyed, and the only socket that
\* can be live is the one the module variable socketClient refers to.
C39_OneLiveSocket ==
    /\ client.live <= 1
    /\ client.live = (IF SocketLive(client.socketClient) THEN 1 ELSE 0)

\* A socket has been destroyed, its 'close' event not yet delivered, and the next socket
\* of the connect sequence is already connecting.
C39_Witness ==
    /\ client.closing > 0
    /\ client.live = 1
    /\ client.socketClient.st = "connecting"
    /\ client.socketClient.portIndex > 0

\* The places where a thread waits: in front of a lock statement, or in Thread.Join.
WaitsForLock(a, l) ==
    \E tr \in MainProgram \cup ListenerProgram \cup ReaderProgram :
        tr.a = a /\ tr.op = "acquire" /\ tr.l = l /\ host[1].lk.pc[a] = tr.from

WaitsForJoin(a) ==
    \E tr \in MainProgram :
        tr.a = a /\ tr.op \in {"join", "abort"} /\ host[1].lk.pc[a] = tr.from

Waits(a) == WaitsForJoin(a) \/ \E l \in Locks : WaitsForLock(a, l)

Holds(a) == {l \in Locks : host[1].lk.owner[l] = a}

\* C40: no thread of the handler holds one of its three locks (message queue, main-thread
\* action queue, client list) while it waits for another lock or for a thread join; so
\* whoever owns a lock another thread waits for is not waiting itself, and the tick,
\* Stop and Reload cannot deadlock with the listener and reader threads.
C40_NoLockHeldWhileWaiting ==
    /\ \A a \in Agents : Waits(a) => Holds(a) = {}
    /\ \A a \in Agents, l \in Locks :
          (WaitsForLock(a, l) /\ host[1].lk.owner[l] # "none")
              => ~Waits(host[1].lk.owner[l])

\* The main thread is in the Join of StopServer while the listener thread holds the
\* client-list lock and the reader waits for it.
C40_Witness ==
    /\ WaitsForJoin("main")
    /\ Holds("listener") = {"clientListLock"}
    /\ WaitsForLock("reader", "clientListLock")

====
